---- MODULE Spec2Model ----
(***************************************************************************)
(* Model of the counselling dialogue server: the Flask front end (app.py)  *)
(* with its session table, and the DialogueManager state machine           *)
(* (hub/dialogue_manager.py) that dispatches each turn to one stage.       *)
(* The stages call an external text-generation service; what a stage       *)
(* returns or raises is an input of the turn, drawn from small sets.       *)
(***************************************************************************)
EXTENDS Integers, Sequences, FiniteSets, TLC

VARIABLES
    active_sessions,  \* app.py: session id -> front-end session record
    sessions,         \* DialogueManager.sessions: session id -> session dict
    nsteps,           \* number of requests taken so far
    last,             \* the last request handled and what it returned
    threads,          \* request threads: where each one is in its handler
    gate,             \* the last call of the question gates and its result
    stagecall         \* the last call of a stage module and its result

vars == <<active_sessions, sessions, nsteps, last, threads, gate, stagecall>>

----------------------------------------------------------------------------
(* Bounds of the model *)

\* the requests a run serves
MaxSteps == 2

\* the turns a session has been through when a run starts
MaxTurns == 3

\* the same for a run of two requests at a time
MaxTurnsAhead == 2

\* session ids are opaque tokens (uuid4 strings), written as the positive
\* numbers; NoId stands for a request that carries no session_id
NoId == 0

\* the text of the n-th turn of a session: every turn carries its own text,
\* so that the turns of a transcript can be told apart
UserTexts == <<"u1", "u2", "u3", "u4", "u5", "u6", "u7", "u8">>
UserText(n) == IF n <= Len(UserTexts) THEN UserTexts[n] ELSE "u"
NoMessage == "<no message>"    \* a request body without 'message'
NoneStr == "<None>"            \* Python None where a string may stand

----------------------------------------------------------------------------
(* hub/dialogue_manager.py: enumerations *)

DialogueState ==
    [INITIAL |-> "initial", PROBLEM_ANALYSIS |-> "analysis",
     QUESTIONNAIRE |-> "questionnaire", SOLUTION_GENERATION |-> "solution",
     FEEDBACK |-> "feedback", REPORT_GENERATION |-> "report",
     COMPLETED |-> "completed", ERROR |-> "error", ENDED |-> "ended"]

DialogueStates == DOMAIN DialogueState

\* DialogueState(value): the member whose value is v
DialogueStateOf(v) == CHOOSE m \in DialogueStates : DialogueState[m] = v

\* FeedbackType of dialogue_manager.py (lower-case values)
FeedbackType ==
    [POSITIVE |-> "positive", NEGATIVE |-> "negative",
     UNCERTAIN |-> "uncertain", NEED_TIME |-> "need_time",
     LOST_CONFIDENCE |-> "lost_confidence"]

\* FeedbackType of feedback_analyzer.py (upper-case values): the only
\* values FeedbackAnalyzer._validate_result lets through
AnalyzerFeedbackTypes ==
    {"NEGATIVE", "UNCERTAIN", "NEED_TIME", "POSITIVE", "LOST_CONFIDENCE"}

\* the feedback type compared without lower-casing it
LowerOmitted(s) == s

\* str.lower() on the feedback type strings
Lower(s) ==
    CASE s = "POSITIVE" -> "positive"
      [] s = "NEGATIVE" -> "negative"
      [] s = "UNCERTAIN" -> "uncertain"
      [] s = "NEED_TIME" -> "need_time"
      [] s = "LOST_CONFIDENCE" -> "lost_confidence"
      [] OTHER -> s

\* config/settings.py: the keys of ERROR_MESSAGES
ERROR_MESSAGES ==
    [invalid_topic |-> "msg:invalid_topic",
     privacy_violation |-> "msg:privacy_violation",
     political_content |-> "msg:political_content",
     public_figure |-> "msg:public_figure",
     validation_error |-> "msg:validation_error",
     system_error |-> "msg:system_error"]

\* the fixed replies of the handlers
MsgAnalysisFailed == "msg:analysis_failed"
MsgQuestionValueError == "msg:question_failed"
MsgQuestionError == "msg:question_system_error"
MsgSolutionFailed == "msg:solution_failed"
MsgNoSolution == "msg:no_solution_found"
MsgFeedbackFailed == "msg:feedback_failed"
MsgReportDone == "msg:report_generated"
AskSpecifics == "+ask_specifics"

----------------------------------------------------------------------------
(* Dictionaries.  A Python dict is a record plus the set of keys present;  *)
(* a field whose key is absent holds a fixed filler value.                 *)

Get(d, k, default) == IF k \in d.keys THEN d[k] ELSE default

InitialAnalysis ==
    [problem |-> NoneStr, missing_info |-> [critical |-> <<>>, optional |-> <<>>]]

NoFeedback == [content |-> "", type |-> ""]

\* a new session dict that starts in PROBLEM_ANALYSIS
NewSessionInAnalysis ==
    [keys |-> {"state", "history", "analysis_result"},
     state |-> "PROBLEM_ANALYSIS", history |-> <<>>,
     analysis_result |-> [problem |-> NoneStr,
                          missing_info |-> [critical |-> <<>>, optional |-> <<>>]],
     solution |-> "", feedback |-> [content |-> "", type |-> ""]]

\* the dict _get_or_create_session stores for a new id
NewSession ==
    [keys |-> {"state", "history", "analysis_result"},
     state |-> "INITIAL", history |-> <<>>,
     analysis_result |-> InitialAnalysis,
     solution |-> "", feedback |-> NoFeedback]

\* the literal {} that _handle_initial_state passes as the session
EmptyDict == [NewSession EXCEPT !.keys = {}]

\* a handler's return dict with the keys 'response' and 'state'
Response(text, state) ==
    [keys |-> {"response", "state"}, response |-> text, state |-> state,
     user_input |-> NoneStr, analysis_result |-> InitialAnalysis,
     solution |-> "", feedback_type |-> ""]

NoResponse == Response("", "")

----------------------------------------------------------------------------
(* What the stages return in a turn.  Each stage makes one call to the     *)
(* generation service and parses the reply; the outcome is either a value  *)
(* that passed the stage's own validation, or an exception.                *)

Problems == {"p1"}
MissingInfos ==
    {[critical |-> <<>>, optional |-> <<>>],
     [critical |-> <<"duration">>, optional |-> <<>>],
     [critical |-> <<>>, optional |-> <<"age">>]}
Questions == {"q1"}
SolutionTexts == {"", "sol1"}
FeedbackReplies == {"r1"}

\* ProblemAnalyzer.analyze: raises, or returns a validated AnalysisResult
AnalyzeOutcomes ==
    {[ok |-> FALSE, result |-> InitialAnalysis]} \cup
    {[ok |-> TRUE,
      result |-> [problem |-> p, missing_info |-> m]] :
        p \in Problems, m \in MissingInfos}

\* QuestionGenerator.generate: raises ValueError, raises something else
\* (transport), or returns the stripped reply text
QuestionOutcomes ==
    {[ok |-> FALSE, error |-> e, text |-> ""] : e \in {"ValueError", "Exception"}} \cup
    {[ok |-> TRUE, error |-> "", text |-> q] : q \in Questions}

\* SolutionGenerator.generate_response: raises ResponseGenerationError, or
\* returns {'message': {'content': ...}}
SolutionOutcomes ==
    {[ok |-> FALSE, content |-> ""]} \cup
    {[ok |-> TRUE, content |-> c] : c \in SolutionTexts}

\* FeedbackAnalyzer.analyze: raises, or returns {'type', 'response'} with
\* type one of the analyzer's five upper-case values
FeedbackOutcomes ==
    {[ok |-> FALSE, type |-> "", response |-> ""]} \cup
    {[ok |-> TRUE, type |-> t, response |-> r] :
        t \in AnalyzerFeedbackTypes, r \in FeedbackReplies}

\* The outcomes of the stages a turn can call.  A turn calls the Problem
\* Analyzer and then one of the Question Generator and the Solution
\* Generator, or the Solution Generator alone, or the Feedback Classifier
\* alone; the outcome of a stage the turn does not call is held at a fixed
\* value, since nothing reads it.
UnusedOutcomes ==
    [analysis |-> [ok |-> FALSE, result |-> InitialAnalysis],
     questions |-> [ok |-> FALSE, error |-> "Exception", text |-> ""],
     solution |-> [ok |-> FALSE, content |-> ""],
     feedback |-> [ok |-> FALSE, type |-> "", response |-> ""]]

StageOutcomes ==
    {[UnusedOutcomes EXCEPT !.analysis = a, !.questions = q] :
        a \in AnalyzeOutcomes, q \in QuestionOutcomes} \cup
    {[UnusedOutcomes EXCEPT !.analysis = a, !.solution = s] :
        a \in AnalyzeOutcomes, s \in SolutionOutcomes} \cup
    {[UnusedOutcomes EXCEPT !.feedback = f] : f \in FeedbackOutcomes}

\* the outcomes that can differ in a turn dispatched in the given state
OutcomesIn(state) ==
    CASE state \in {"INITIAL", "PROBLEM_ANALYSIS"} ->
            {[UnusedOutcomes EXCEPT !.analysis = a] :
                a \in {x \in AnalyzeOutcomes : ~x.ok}} \cup
            {[UnusedOutcomes EXCEPT !.analysis = a, !.questions = q] :
                a \in {x \in AnalyzeOutcomes :
                          x.ok /\ x.result.missing_info.critical \o
                                  x.result.missing_info.optional # <<>>},
                q \in QuestionOutcomes} \cup
            {[UnusedOutcomes EXCEPT !.analysis = a, !.solution = s] :
                a \in {x \in AnalyzeOutcomes :
                          x.ok /\ x.result.missing_info.critical \o
                                  x.result.missing_info.optional = <<>>},
                s \in SolutionOutcomes}
      [] state \in {"QUESTIONNAIRE", "SOLUTION_GENERATION"} ->
            {[UnusedOutcomes EXCEPT !.solution = s] : s \in SolutionOutcomes}
      [] state = "FEEDBACK" ->
            {[UnusedOutcomes EXCEPT !.feedback = f] : f \in FeedbackOutcomes}
      [] OTHER -> {UnusedOutcomes}

\* Python truthiness of a str-or-None value
Truthy(s) == s # "" /\ s # NoneStr

\* what a handler hands back: its return dict, the session dict as the
\* handler left it, the stages it called in order, the stage that raised
\* (or NoneStr), and the message list given to the Problem Analyzer
Handled(resp, session, calls, failed, messages) ==
    [resp |-> resp, session |-> session, calls |-> calls,
     failed |-> failed, messages |-> messages]

----------------------------------------------------------------------------
(* hub/dialogue_manager.py: the handlers *)

\* _handle_report_generation answering with the state it is dispatched in
HandleReportGenerationStaying(session) ==
    Handled(Response(MsgReportDone, DialogueState.REPORT_GENERATION), session,
            <<>>, NoneStr, <<>>)

HandleReportGeneration(session) ==
    Handled(Response(MsgReportDone, DialogueState.COMPLETED), session,
            <<>>, NoneStr, <<>>)

HandleSolutionGeneration(user_input, session, analysis_result, out) ==
    IF out.solution.ok
    THEN LET s1 == [session EXCEPT !.keys = @ \cup {"solution"},
                                   !.solution = out.solution.content]
         IN Handled([Response(s1.solution, DialogueState.FEEDBACK)
                        EXCEPT !.keys = @ \cup {"solution"},
                               !.solution = s1.solution],
                    s1, <<"solution_generator">>, NoneStr, <<>>)
    ELSE Handled(Response(MsgSolutionFailed, DialogueState.SOLUTION_GENERATION),
                 session, <<"solution_generator">>, "solution_generator", <<>>)

HandleQuestionnaire(user_input, analysis_result, out) ==
    LET reply == IF out.questions.ok THEN out.questions.text
                 ELSE IF out.questions.error = "ValueError"
                      THEN MsgQuestionValueError
                      ELSE MsgQuestionError
        state == IF out.questions.ok THEN DialogueState.SOLUTION_GENERATION
                 ELSE DialogueState.QUESTIONNAIRE
    IN [keys |-> {"response", "state", "user_input"},
        response |-> reply, state |-> state, user_input |-> user_input,
        analysis_result |-> InitialAnalysis, solution |-> "",
        feedback_type |-> ""]

\* the branch taken on the critical list alone
NeedsQuestionsCriticalOnly(analysis_result) ==
    Len(analysis_result.missing_info.critical) > 0

\* the branch taken whenever the lists exist
NeedsQuestionsAlways(analysis_result) ==
    \/ Len(analysis_result.missing_info.critical) >= 0
    \/ Len(analysis_result.missing_info.optional) >= 0

\* the branch of _handle_problem_analysis on missing_info
NeedsQuestions(analysis_result) ==
    \/ Len(analysis_result.missing_info.critical) > 0
    \/ Len(analysis_result.missing_info.optional) > 0

\* the message list built for the Problem Analyzer
AnalyzerMessages(user_input, history) ==
    <<[role |-> "user", content |-> user_input]>> \o
    [i \in 1..Len(history) |->
        [role |-> IF Truthy(history[i].user_input) THEN "user" ELSE "assistant",
         content |-> IF Truthy(history[i].user_input)
                     THEN history[i].user_input
                     ELSE history[i].response]]

HandleProblemAnalysis(user_input, session, out) ==
    LET messages == AnalyzerMessages(user_input, Get(session, "history", <<>>))
        ar == out.analysis.result
    IN IF ~out.analysis.ok
       THEN Handled(Response(MsgAnalysisFailed, DialogueState.PROBLEM_ANALYSIS),
                    session, <<"problem_analyzer">>, "problem_analyzer", messages)
       ELSE IF NeedsQuestions(ar)
       THEN LET q == HandleQuestionnaire(user_input, ar, out)
            IN Handled([q EXCEPT !.keys = @ \cup {"analysis_result"},
                                 !.analysis_result = ar],
                       session, <<"problem_analyzer", "question_generator">>,
                       IF out.questions.ok THEN NoneStr ELSE "question_generator",
                       messages)
       ELSE LET s == HandleSolutionGeneration(user_input, session, ar, out)
            IN Handled([s.resp EXCEPT !.keys = @ \cup {"analysis_result"},
                                      !.analysis_result = ar],
                       s.session, <<"problem_analyzer">> \o s.calls,
                       s.failed, messages)

\* _handle_initial_state: no check is made; the session handed on is {}
HandleInitialState(user_input, out) ==
    HandleProblemAnalysis(user_input, EmptyDict, out)

\* _handle_feedback keeping the session in FEEDBACK when it finds no
\* solution stored
HandleFeedbackWaiting(user_input, session, out) ==
    LET solution == Get(session, "solution", "")
        feedback_type == Lower(out.feedback.type)
        s1 == [session EXCEPT !.keys = @ \cup {"feedback"},
                              !.feedback = [content |-> user_input,
                                            type |-> feedback_type]]
        calls == <<"feedback_analyzer">>
    IN IF solution = ""
       THEN Handled(Response(MsgNoSolution, DialogueState.FEEDBACK),
                    session, <<>>, NoneStr, <<>>)
       ELSE IF ~out.feedback.ok
       THEN Handled(Response(MsgFeedbackFailed, DialogueState.FEEDBACK),
                    session, calls, "feedback_analyzer", <<>>)
       ELSE IF feedback_type = FeedbackType.LOST_CONFIDENCE
       THEN Handled(Response(out.feedback.response, DialogueState.ENDED),
                    [s1 EXCEPT !.state = "ENDED"], calls, NoneStr, <<>>)
       ELSE IF feedback_type \in {FeedbackType.NEGATIVE, FeedbackType.UNCERTAIN}
       THEN Handled([Response(out.feedback.response \o AskSpecifics,
                              DialogueState.SOLUTION_GENERATION)
                        EXCEPT !.keys = @ \cup {"feedback_type"},
                               !.feedback_type = feedback_type],
                    s1, calls, NoneStr, <<>>)
       ELSE Handled(Response(MsgReportDone, DialogueState.COMPLETED),
                    s1, calls, NoneStr, <<>>)

\* _handle_feedback without the check that a solution is stored
HandleFeedbackSolutionUnchecked(user_input, session, out) ==
    LET feedback_type == Lower(out.feedback.type)
        s1 == [session EXCEPT !.keys = @ \cup {"feedback"},
                              !.feedback = [content |-> user_input,
                                            type |-> feedback_type]]
        calls == <<"feedback_analyzer">>
    IN IF ~out.feedback.ok
       THEN Handled(Response(MsgFeedbackFailed, DialogueState.FEEDBACK),
                    session, calls, "feedback_analyzer", <<>>)
       ELSE IF feedback_type = FeedbackType.LOST_CONFIDENCE
       THEN Handled(Response(out.feedback.response, DialogueState.ENDED),
                    [s1 EXCEPT !.state = "ENDED"], calls, NoneStr, <<>>)
       ELSE IF feedback_type \in {FeedbackType.NEGATIVE, FeedbackType.UNCERTAIN}
       THEN Handled([Response(out.feedback.response \o AskSpecifics,
                              DialogueState.SOLUTION_GENERATION)
                        EXCEPT !.keys = @ \cup {"feedback_type"},
                               !.feedback_type = feedback_type],
                    s1, calls, NoneStr, <<>>)
       ELSE Handled(Response(MsgReportDone, DialogueState.COMPLETED),
                    s1, calls, NoneStr, <<>>)

HandleFeedback(user_input, session, out) ==
    LET solution == Get(session, "solution", "")
        feedback_type == Lower(out.feedback.type)
        s1 == [session EXCEPT !.keys = @ \cup {"feedback"},
                              !.feedback = [content |-> user_input,
                                            type |-> feedback_type]]
        calls == <<"feedback_analyzer">>
    IN IF solution = ""
       THEN Handled(Response(MsgNoSolution, DialogueState.SOLUTION_GENERATION),
                    session, <<>>, NoneStr, <<>>)
       ELSE IF ~out.feedback.ok
       THEN Handled(Response(MsgFeedbackFailed, DialogueState.FEEDBACK),
                    session, calls, "feedback_analyzer", <<>>)
       ELSE IF feedback_type = FeedbackType.LOST_CONFIDENCE
       THEN Handled(Response(out.feedback.response, DialogueState.ENDED),
                    [s1 EXCEPT !.state = "ENDED"], calls, NoneStr, <<>>)
       ELSE IF feedback_type \in {FeedbackType.NEGATIVE, FeedbackType.UNCERTAIN}
       THEN Handled([Response(out.feedback.response \o AskSpecifics,
                              DialogueState.SOLUTION_GENERATION)
                        EXCEPT !.keys = @ \cup {"feedback_type"},
                               !.feedback_type = feedback_type],
                    s1, calls, NoneStr, <<>>)
       ELSE LET r == HandleReportGeneration(s1)
            IN Handled(r.resp, r.session, calls, NoneStr, <<>>)

----------------------------------------------------------------------------
(* hub/dialogue_manager.py: dispatch and commit *)

\* ERROR_MESSAGES[key]: a key the dict lacks raises KeyError
HasMessage(key) == key \in DOMAIN ERROR_MESSAGES

Dispatched(h, raised) ==
    [raised |-> raised, resp |-> h.resp, session |-> h.session,
     calls |-> h.calls, failed |-> h.failed, messages |-> h.messages]

\* the else branch of _process_state, and the except clause around it
UnknownState(session) ==
    IF HasMessage("unknown_state")
    THEN Dispatched(Handled(Response(ERROR_MESSAGES["unknown_state"],
                                     DialogueState.INITIAL),
                            session, <<>>, NoneStr, <<>>), FALSE)
    ELSE IF HasMessage("processing_error")
    THEN Dispatched(Handled(Response(ERROR_MESSAGES["processing_error"],
                                     DialogueState.INITIAL),
                            session, <<>>, NoneStr, <<>>), FALSE)
    ELSE Dispatched(Handled(NoResponse, session, <<>>, NoneStr, <<>>), TRUE)

\* a dispatcher that sends every turn after the first to the Problem Analyzer
ProcessStateReanalyse(state, user_input, session, out) ==
    IF state = "INITIAL"
    THEN Dispatched([HandleInitialState(user_input, out)
                        EXCEPT !.session = session], FALSE)
    ELSE Dispatched(HandleProblemAnalysis(user_input, session, out), FALSE)

ProcessState(state, user_input, session, out) ==
    CASE state = "INITIAL" ->
            Dispatched([HandleInitialState(user_input, out)
                           EXCEPT !.session = session], FALSE)
      [] state = "PROBLEM_ANALYSIS" ->
            Dispatched(HandleProblemAnalysis(user_input, session, out), FALSE)
      [] state \in {"QUESTIONNAIRE", "SOLUTION_GENERATION"} ->
            Dispatched(HandleSolutionGeneration(
                           user_input, session,
                           Get(session, "analysis_result", InitialAnalysis), out),
                       FALSE)
      [] state = "FEEDBACK" ->
            Dispatched(HandleFeedback(user_input, session, out), FALSE)
      [] state = "REPORT_GENERATION" ->
            Dispatched(HandleReportGeneration(session), FALSE)
      [] OTHER -> UnknownState(session)

\* _update_session_state, lines 211-212: session['state']
WriteState(session, response) ==
    IF "state" \in response.keys
    THEN [session EXCEPT !.state = DialogueStateOf(response.state)]
    ELSE session

\* _update_session_state, lines 215-221: the entry appended to
\* session['history']
AppendHistory(session, response) ==
    [session EXCEPT !.history =
        Append(@, [user_input |-> Get(response, "user_input", NoneStr),
                   response |-> Get(response, "response", NoneStr),
                   state |-> Get(response, "state", NoneStr)])]

\* _update_session_state, lines 227-228: session['analysis_result']
WriteAnalysisResult(session, response) ==
    IF "analysis_result" \in response.keys
    THEN [session EXCEPT !.analysis_result = response.analysis_result]
    ELSE session

\* _update_session_state: the three writes one after the other
UpdateSessionState(session, response) ==
    WriteAnalysisResult(AppendHistory(WriteState(session, response), response),
                        response)

\* a store in which creating a session replaces all the others
GetOrCreateSessionAlone(store, session_id) ==
    IF session_id \in DOMAIN store THEN store
    ELSE (session_id :> NewSession)

GetOrCreateSession(store, session_id) ==
    IF session_id \in DOMAIN store THEN store
    ELSE store @@ (session_id :> NewSession)

\* process_input: the store after the call, and what the call returned
ProcessInput(store, user_input, session_id, out) ==
    LET store1 == GetOrCreateSession(store, session_id)
        session == store1[session_id]
        current_state == Get(session, "state", "INITIAL")
        d == ProcessState(current_state, user_input, session, out)
    IN [raised |-> d.raised,
        store |-> IF d.raised THEN store1
                  ELSE [store1 EXCEPT ![session_id] =
                            UpdateSessionState(d.session, d.resp)],
        resp |-> d.resp, pre_state |-> current_state, pre_session |-> session,
        out |-> out,
        calls |-> d.calls, failed |-> d.failed, messages |-> d.messages]

----------------------------------------------------------------------------
(* modules/privacy_checker.py, modules/scope_validator.py and              *)
(* hub/question_validator.py: the question gates.  A question is the       *)
(* sequence of its characters; a character is written by its pinyin, a     *)
(* surname with a capital letter, and a suffix tells apart two characters  *)
(* of the same pinyin.                                                     *)

MaxQuestionLen == 3

\* the characters questions are made of: two surnames (U+5F20 of the first
\* row of common_surnames, U+4EFB of the sixth), a given-name character
\* (U+660E), the prefixes U+5C0F and U+8001, U+5E08 (with U+8001 the title
\* "teacher"), and U+5934 and U+75BC (together "headache")
Chars == {"Zhang", "Ren", "ming", "xiao", "lao", "shi", "tou", "teng"}

GateQuestions == UNION {[1..n -> Chars] : n \in 0..MaxQuestionLen}

\* ScopeValidator.validate_question refuses a question of this many
\* characters or more
MaxQuestionChars == 1000

\* n times the character U+5417, which stands in no pattern of the gates
Padding(n) == [i \in 1..n |-> "ma"]

\* questions of 999 and of 1000 characters
LongQuestions ==
    {<<"tou", "teng">> \o Padding(MaxQuestionChars - 3),
     <<"tou", "teng">> \o Padding(MaxQuestionChars - 2),
     <<"ming">> \o Padding(MaxQuestionChars - 1)}

\* one question for each group of invalid_patterns that the characters of
\* Chars do not spell: homework (two patterns), medicine, investment,
\* sensitive subjects and daily life
PatternQuestions ==
    {<<"xie", "ming", "zuo", "ye">>, <<"jie", "ming", "ti">>, <<"chi", "yao">>,
     <<"li", "cai">>, <<"zheng", "zhi">>, <<"tian", "qi_air">>}

\* questions with surnames of the other rows of common_surnames, with the
\* surnames that are characters of a title (U+4EFB in U+4E3B U+4EFB) or of
\* an out-of-scope pattern (U+91D1 in U+57FA U+91D1), with characters that
\* sound like a surname and are none, and the question of
\* test_privacy_violation
NameQuestions ==
    {<<"Jin", "ming">>, <<"Xu", "ming">>, <<"Xu_2", "san">>, <<"Gong", "jiao", "shou">>,
     <<"lao", "Shi_3">>, <<"xiao", "Xiao">>, <<"xiao", "hong">>,
     <<"zhu", "Ren">>, <<"zhu", "Ren", "ming">>, <<"Li", "zhu", "Ren">>,
     <<"ji", "Jin">>, <<"ji", "Jin", "ming">>, <<"lao", "shi">>, <<"li", "ming">>,
     <<"Zhang", "san", "he", "Li", "si", "jing", "chang", "chao", "jia">>}

UserRole == [STUDENT |-> "student", PARENT |-> "parent", TEACHER |-> "teacher"]
UserRoles == {UserRole[r] : r \in DOMAIN UserRole}

\* PrivacyChecker.common_surnames: the hundred characters, row by row as
\* the source lists them (U+5415 is written Lv)
common_surnames ==
    {"Li", "Wang", "Zhang", "Liu", "Chen", "Yang", "Huang", "Zhao", "Zhou", "Wu",
     "Xu", "Sun", "Zhu", "Ma", "Hu", "Guo", "Lin", "He", "Gao", "Liang",
     "Zheng", "Luo", "Song", "Xie", "Tang", "Han", "Cao", "Xu_2", "Deng", "Xiao",
     "Feng", "Zeng", "Cheng", "Cai", "Peng", "Pan", "Yuan", "Yu", "Dong", "Yu_2",
     "Su", "Ye", "Lv", "Wei", "Jiang", "Tian", "Du", "Ding", "Shen", "Jiang_2",
     "Fan", "Jiang_3", "Fu", "Zhong", "Lu", "Wang_2", "Dai", "Cui", "Ren", "Lu_2",
     "Liao", "Yao", "Fang", "Jin", "Qiu", "Xia", "Tan", "Wei_2", "Jia", "Zou",
     "Shi", "Xiong", "Meng", "Qin", "Yan", "Xue", "Hou", "Lei", "Bai", "Long",
     "Duan", "Hao", "Kong", "Shao", "Shi_2", "Mao", "Chang", "Wan", "Gu", "Lai",
     "Wu_2", "Kang", "He_2", "Yan_2", "Yin", "Qian", "Shi_3", "Niu", "Hong", "Gong"}

\* the characters taken as a given name after a surname
GivenAfterSurname ==
    {"san", "si", "wu", "liu", "qi", "ba", "jiu",
     "ming", "hua", "jun", "wei", "qiang", "ping"}

\* the two-character titles taken after a surname; the second character
\* of the third one is the surname U+4EFB
Titles ==
    {<<"lao", "shi">>, <<"jing", "li">>, <<"zhu", "Ren">>,
     <<"yi", "sheng">>, <<"jiao", "shou">>}

\* the characters taken as a given name after U+5C0F
GivenAfterXiao ==
    {"ming", "hong", "hua", "qiang", "jun", "wei", "ling", "fang", "ying", "mei"}

\* PrivacyChecker._contains_real_name
ContainsRealName(text) ==
    \E i \in 1..(Len(text) - 1) :
        LET current_char == text[i]
            next_char == text[i + 1]
        IN \/ /\ current_char \in common_surnames
              /\ \/ next_char \in GivenAfterSurname
                 \/ /\ i + 2 <= Len(text)
                    /\ <<text[i + 1], text[i + 2]>> \in Titles
           \/ current_char = "xiao" /\ next_char \in GivenAfterXiao
           \/ current_char \in {"lao", "xiao"} /\ next_char \in common_surnames

\* PrivacyCheckResult: the fields of to_dict that the gates read or set
PrivacyCheckResult(is_safe, details) ==
    [is_safe |-> is_safe,
     has_real_names |-> details.has_real_names,
     risk_level |-> details.risk_level,
     suggestion |-> details.suggestion,
     rejection_required |-> details.rejection_required]

\* the details check_privacy fills in when the matcher finds a name
NameMatchDetails ==
    [has_real_names |-> TRUE, risk_level |-> "high",
     suggestion |-> "msg:use_relation_term", rejection_required |-> TRUE]

DefaultDetails ==
    [has_real_names |-> FALSE, risk_level |-> "low",
     suggestion |-> "", rejection_required |-> FALSE]

\* what the generation service answers to the privacy prompt: the call
\* raises, or the reply does not parse or lacks a required field (ok is
\* FALSE in both cases), or it is a JSON object with the required fields
PrivacyOutcomes ==
    {[ok |-> FALSE, is_safe |-> FALSE, details |-> DefaultDetails]} \cup
    {[ok |-> TRUE, is_safe |-> TRUE, details |-> DefaultDetails]} \cup
    {[ok |-> TRUE, is_safe |-> FALSE,
      details |-> [DefaultDetails EXCEPT !.risk_level = "high",
                                         !.suggestion = sg,
                                         !.rejection_required = TRUE]] :
        sg \in {"", "msg:suggestion"}}

\* what a gate hands back: whether it raised, its return value, and the
\* calls it made to the generation service
Gated(raised, value, calls) == [raised |-> raised, value |-> value, calls |-> calls]

\* check_privacy asking the generation service before looking for names
CheckPrivacyModelOnly(question, po) ==
    IF ~po.ok
    THEN Gated(TRUE, PrivacyCheckResult(FALSE, DefaultDetails), <<"privacy_checker">>)
    ELSE Gated(FALSE, PrivacyCheckResult(po.is_safe, po.details),
               <<"privacy_checker">>)

\* PrivacyChecker.check_privacy
CheckPrivacy(question, po) ==
    IF ContainsRealName(question)
    THEN Gated(FALSE, PrivacyCheckResult(FALSE, NameMatchDetails), <<>>)
    ELSE IF ~po.ok
    THEN Gated(TRUE, PrivacyCheckResult(FALSE, DefaultDetails), <<"privacy_checker">>)
    ELSE Gated(FALSE, PrivacyCheckResult(po.is_safe, po.details),
               <<"privacy_checker">>)

\* re.search of a literal: the characters of word stand side by side in text
Contains(text, word) ==
    \E i \in 1..(Len(text) - Len(word) + 1) :
        \A j \in 1..Len(word) : text[i + j - 1] = word[j]

\* re.search of a.*b: a stands somewhere before one of the characters bs
ContainsThen(text, a, bs) ==
    \E i \in 1..Len(text) :
        /\ text[i] = a
        /\ \E j \in (i + 1)..Len(text) : text[j] \in bs

\* re.search of a.*bc with c one of cs
ContainsThenPair(text, a, b, cs) ==
    \E i \in 1..Len(text) :
        /\ text[i] = a
        /\ \E j \in (i + 1)..(Len(text) - 1) :
              text[j] = b /\ text[j + 1] \in cs

\* invalid_patterns of ScopeValidator.validate_question, in their order;
\* the reason of the first pattern found, or NoneStr
InvalidPatternReason(text) ==
    IF \/ ContainsThenPair(text, "xie", "zuo", {"ye", "wen"})
       \/ ContainsThen(text, "jie", {"ti"})
    THEN "msg:homework"
    ELSE IF \/ ContainsThen(text, "chi", {"yao"})
            \/ ContainsThenPair(text, "kan", "yi", {"sheng"})
            \/ Contains(text, <<"tou", "teng">>)
            \/ Contains(text, <<"gan", "mao">>)
    THEN "msg:medical"
    ELSE IF \E w \in {<<"gu", "shi_market">>, <<"ji", "Jin">>, <<"li", "cai">>,
                      <<"tou_invest", "zi">>} : Contains(text, w)
    THEN "msg:investment"
    ELSE IF \E w \in {<<"zheng", "zhi">>, <<"zong", "jiao">>, <<"bao", "li_force">>,
                      <<"se", "qing">>} : Contains(text, w)
    THEN "msg:sensitive"
    ELSE IF \E w \in {<<"tian", "qi_air">>, <<"dian", "ying_shadow">>, <<"gou", "wu_thing">>} :
                Contains(text, w)
    THEN "msg:daily_life"
    ELSE NoneStr

\* the object the scope prompt is answered with; confidence in hundredths
ScopeReply(is_valid, confidence, problem_type, safety_flag) ==
    [is_valid |-> is_valid, topic |-> "topic1", confidence |-> confidence,
     problem_type |-> problem_type, safety_flag |-> safety_flag,
     reason |-> "reason1"]

\* what the generation service answers to the scope prompt: the call raises
\* or the reply does not parse, lacks a field or has one of the wrong type
\* (ok is FALSE), or it is an object with the six fields
ScopeOutcomes ==
    {[ok |-> FALSE, result |-> ScopeReply(FALSE, 0, "", "")]} \cup
    {[ok |-> TRUE, result |-> ScopeReply(v, c, "psychology", "safe")] :
        v \in BOOLEAN, c \in {50, 90}} \cup
    {[ok |-> TRUE, result |-> ScopeReply(TRUE, 80, "psychology", "safe")],
     [ok |-> TRUE, result |-> ScopeReply(TRUE, 90, "psychology", "danger")],
     [ok |-> TRUE, result |-> ScopeReply(TRUE, 90, "not_psychology", "safe")]}

\* the pair (is_valid, result) that ScopeValidator.validate_question returns
ScopeTuple(is_valid, result) ==
    [kind |-> "tuple", is_valid |-> is_valid, result |-> result]

NoScope == ScopeTuple(FALSE, ScopeReply(FALSE, 0, "", ""))

\* validate_question without the pattern pre-check: every question goes to
\* the generation service
ScopeValidateQuestionModelOnly(question, role, so) ==
    IF question = <<>> \/ Len(question) >= MaxQuestionChars \/ role \notin UserRoles
    THEN Gated(TRUE, NoScope, <<>>)
    ELSE IF ~so.ok
    THEN Gated(TRUE, NoScope, <<"scope_validator">>)
    ELSE LET r == so.result
             v1 == IF r.safety_flag = "danger" \/ r.problem_type = "not_psychology"
                   THEN FALSE ELSE r.is_valid
             v2 == IF r.confidence < 80 THEN FALSE ELSE v1
         IN Gated(FALSE, ScopeTuple(v2, [r EXCEPT !.is_valid = v2]),
                  <<"scope_validator">>)

\* validate_question returning the reply's own is_valid
ScopeValidateQuestionTrusting(question, role, so) ==
    IF question = <<>> \/ Len(question) >= MaxQuestionChars \/ role \notin UserRoles
    THEN Gated(TRUE, NoScope, <<>>)
    ELSE IF ~so.ok
    THEN Gated(TRUE, NoScope, <<"scope_validator">>)
    ELSE Gated(FALSE, ScopeTuple(so.result.is_valid, so.result),
               <<"scope_validator">>)

\* ScopeValidator.validate_question
ScopeValidateQuestion(question, role, so) ==
    IF question = <<>> \/ Len(question) >= MaxQuestionChars \/ role \notin UserRoles
    THEN Gated(TRUE, NoScope, <<>>)
    ELSE IF InvalidPatternReason(question) # NoneStr
    THEN Gated(FALSE,
               ScopeTuple(FALSE,
                   [is_valid |-> FALSE, topic |-> "", confidence |-> 100,
                    problem_type |-> "not_psychology",
                    safety_flag |-> IF InvalidPatternReason(question) = "msg:sensitive"
                                    THEN "danger" ELSE "safe",
                    reason |-> InvalidPatternReason(question)]),
               <<>>)
    ELSE IF ~so.ok
    THEN Gated(TRUE, NoScope, <<"scope_validator">>)
    ELSE LET r == so.result
             v1 == IF r.safety_flag = "danger" \/ r.problem_type = "not_psychology"
                   THEN FALSE ELSE r.is_valid
             v2 == IF r.confidence < 80 THEN FALSE ELSE v1
         IN Gated(FALSE, ScopeTuple(v2, [r EXCEPT !.is_valid = v2]),
                  <<"scope_validator">>)

\* the dict QuestionValidator.validate_question returns
Validation(is_valid, error_message, topic) ==
    [is_valid |-> is_valid, error_message |-> error_message, topic |-> topic]

\* scope_result.get(...): a dict has the method, a tuple raises
\* AttributeError
HasGet(value) == value.kind = "dict"

\* validate_question asking the scope validator whatever the privacy check
\* returned
ValidateQuestionPrivacyIgnored(question, role, po, so) ==
    LET privacy == CheckPrivacy(question, po)
        scope == ScopeValidateQuestion(question, role, so)
        failed == Validation(FALSE, "msg:validation_failed", NoneStr)
        both == <<"privacy_checker", "scope_validator">>
    IN IF privacy.raised
       THEN [result |-> failed, calls |-> privacy.calls, gates |-> <<"privacy_checker">>]
       ELSE IF scope.raised \/ ~HasGet(scope.value)
       THEN [result |-> failed, calls |-> privacy.calls \o scope.calls, gates |-> both]
       ELSE IF ~scope.value.is_valid
       THEN [result |-> Validation(FALSE, scope.value.result.reason, NoneStr),
             calls |-> privacy.calls \o scope.calls, gates |-> both]
       ELSE [result |-> Validation(TRUE, NoneStr, scope.value.result.topic),
             calls |-> privacy.calls \o scope.calls, gates |-> both]

\* validate_question whose except clause lets the question through
ValidateQuestionFailOpen(question, role, po, so) ==
    LET privacy == CheckPrivacy(question, po)
        scope == ScopeValidateQuestion(question, role, so)
        passed == Validation(TRUE, NoneStr, "msg:unclassified")
        both == <<"privacy_checker", "scope_validator">>
    IN IF privacy.raised
       THEN [result |-> passed, calls |-> privacy.calls, gates |-> <<"privacy_checker">>]
       ELSE IF ~privacy.value.is_safe
       THEN [result |->
                Validation(FALSE,
                           IF privacy.value.suggestion # ""
                           THEN privacy.value.suggestion
                           ELSE "msg:contains_private_information",
                           NoneStr),
             calls |-> privacy.calls, gates |-> <<"privacy_checker">>]
       ELSE IF scope.raised \/ ~HasGet(scope.value)
       THEN [result |-> passed, calls |-> privacy.calls \o scope.calls, gates |-> both]
       ELSE IF ~scope.value.is_valid
       THEN [result |-> Validation(FALSE, scope.value.result.reason, NoneStr),
             calls |-> privacy.calls \o scope.calls, gates |-> both]
       ELSE [result |-> Validation(TRUE, NoneStr, scope.value.result.topic),
             calls |-> privacy.calls \o scope.calls, gates |-> both]

\* QuestionValidator.validate_question: its return value, the calls made to
\* the generation service and the gates it called
ValidateQuestion(question, role, po, so) ==
    LET privacy == CheckPrivacy(question, po)
        scope == ScopeValidateQuestion(question, role, so)
        failed == Validation(FALSE, "msg:validation_failed", NoneStr)
        both == <<"privacy_checker", "scope_validator">>
    IN IF privacy.raised
       THEN [result |-> failed, calls |-> privacy.calls, gates |-> <<"privacy_checker">>]
       ELSE IF ~privacy.value.is_safe
       THEN [result |->
                Validation(FALSE,
                           IF privacy.value.suggestion # ""
                           THEN privacy.value.suggestion
                           ELSE "msg:contains_private_information",
                           NoneStr),
             calls |-> privacy.calls, gates |-> <<"privacy_checker">>]
       ELSE IF scope.raised \/ ~HasGet(scope.value)
       THEN [result |-> failed, calls |-> privacy.calls \o scope.calls, gates |-> both]
       ELSE IF ~scope.value.is_valid
       THEN [result |-> Validation(FALSE, scope.value.result.reason, NoneStr),
             calls |-> privacy.calls \o scope.calls, gates |-> both]
       ELSE [result |-> Validation(TRUE, NoneStr, scope.value.result.topic),
             calls |-> privacy.calls \o scope.calls, gates |-> both]

\* the record of a call of a gate: the operation, its inputs, what the
\* generation service would answer, and (once the call is made) whether it
\* raised, what it returned, the calls it made and the gates it called
Asked(question, role, po, so) ==
    [op |-> "asked", question |-> question, role |-> role,
     privacy_reply |-> po, scope_reply |-> so,
     raised |-> FALSE,
     privacy |-> PrivacyCheckResult(FALSE, DefaultDetails),
     scope |-> NoScope,
     validation |-> Validation(FALSE, NoneStr, NoneStr),
     calls |-> <<>>, gates |-> <<>>]

NoGate ==
    [Asked(<<>>, UserRole.STUDENT,
           [ok |-> FALSE, is_safe |-> FALSE, details |-> DefaultDetails],
           [ok |-> FALSE, result |-> ScopeReply(FALSE, 0, "", "")])
        EXCEPT !.op = "none"]

----------------------------------------------------------------------------
(* The replies of the generation service as text.  A text is the sequence   *)
(* of its tokens; a token is a piece of the text that the stage modules     *)
(* never cut in two: a brace, a comma, a colon, a blank, a line break, the  *)
(* three backquotes of a markdown fence (written FENCE), a word, a JSON     *)
(* string literal or a JSON number.                                         *)

\* no stage module has been called
NoStage == [op |-> "none"]

\* the contents of the JSON string literals of the replies, as the runs of
\* letters, the underscores and the other characters they are made of; the
\* run kending is the two letters U+80AF U+5B9A
StringContent ==
    ("\"type\"" :> <<"type">>) @@
    ("\"response\"" :> <<"response">>) @@
    ("\"a\"" :> <<"a">>) @@
    ("\"r1\"" :> <<"r", "1">>) @@
    ("\"http://x\"" :> <<"http", ":", "//", "x">>) @@
    ("\"\"" :> <<>>) @@
    ("\"POSITIVE\"" :> <<"POSITIVE">>) @@
    ("\"positive\"" :> <<"positive">>) @@
    ("\" Positive.\"" :> <<" ", "Positive", ".">>) @@
    ("\"POSITIVE(kending)\"" :> <<"POSITIVE", "(", "kending", ")">>) @@
    ("\"NEGATIVE\"" :> <<"NEGATIVE">>) @@
    ("\"UNCERTAIN\"" :> <<"UNCERTAIN">>) @@
    ("\"NEED_TIME\"" :> <<"NEED", "_", "TIME">>) @@
    ("\"need time\"" :> <<"need", " ", "time">>) @@
    ("\"LOST_CONFIDENCE\"" :> <<"LOST", "_", "CONFIDENCE">>) @@
    ("\"MAYBE\"" :> <<"MAYBE">>) @@
    ("\"introduction\"" :> <<"introduction">>) @@
    ("\"questions\"" :> <<"questions">>) @@
    ("\"closing\"" :> <<"closing">>) @@
    ("\"format\"" :> <<"format">>) @@
    ("\"content\"" :> <<"content">>) @@
    ("\"priority\"" :> <<"priority">>) @@
    ("\"list\"" :> <<"list">>) @@
    ("\"direct\"" :> <<"direct">>) @@
    ("\"high\"" :> <<"high">>) @@
    ("\"medium\"" :> <<"medium">>) @@
    ("\"low\"" :> <<"low">>) @@
    ("\"hello\"" :> <<"hello">>) @@
    ("\"hello POSITIVE\"" :> <<"hello", " ", "POSITIVE">>) @@
    ("\"problem\"" :> <<"problem">>) @@
    ("\"age\"" :> <<"age">>) @@
    ("\"occupation\"" :> <<"occupation">>) @@
    ("\"duration\"" :> <<"duration">>) @@
    ("\"frequency\"" :> <<"frequency">>) @@
    ("\"symptoms\"" :> <<"symptoms">>) @@
    ("\"context\"" :> <<"context">>) @@
    ("\"attempts\"" :> <<"attempts">>) @@
    ("\"effectiveness\"" :> <<"effectiveness">>) @@
    ("\"timeline\"" :> <<"timeline">>) @@
    ("\"critical\"" :> <<"critical">>) @@
    ("\"optional\"" :> <<"optional">>) @@
    ("\"immediate\"" :> <<"immediate">>) @@
    ("\"someday\"" :> <<"someday">>) @@
    ("\"provided_info\"" :> <<"provided", "_", "info">>) @@
    ("\"coping_history\"" :> <<"coping", "_", "history">>) @@
    ("\"current_status\"" :> <<"current", "_", "status">>) @@
    ("\"user_expectation\"" :> <<"user", "_", "expectation">>) @@
    ("\"solution_type\"" :> <<"solution", "_", "type">>) @@
    ("\"improvement_goal\"" :> <<"improvement", "_", "goal">>) @@
    ("\"missing_info\"" :> <<"missing", "_", "info">>) @@
    ("\"long_term\"" :> <<"long", "_", "term">>)

StringLiterals == DOMAIN StringContent
NumberLiterals == {"1"}

\* the characters of a token: a string literal is its content between two
\* double quotes, every other token is one piece
Pieces(tok) ==
    IF tok \in StringLiterals
    THEN <<"\"">> \o StringContent[tok] \o <<"\"">>
    ELSE <<tok>>

\* str.isspace on a token
Whitespace == {" ", "\n"}

\* the pieces that are no letters (str.isalpha does not hold of them) and
\* no underscore: blanks and line breaks, punctuation, the digit, the
\* double quote and the fence; every other piece but the underscore is a
\* run of letters
NotLetters ==
    {" ", "\n", ".", "(", ")", ":", "//", "\"", "1", ",", "{", "}", "[", "]",
     "FENCE", "BEL"}

\* c.isalpha() on a piece
IsAlpha(c) == c \notin NotLetters /\ c # "_"

\* the runs of letters that str.upper changes; the letters of kending have
\* no case
UpperCase ==
    ("Positive" :> "POSITIVE") @@ ("Response" :> "RESPONSE") @@
    ("Type" :> "TYPE") @@ ("a" :> "A") @@ ("age" :> "AGE") @@
    ("attempts" :> "ATTEMPTS") @@ ("closing" :> "CLOSING") @@
    ("content" :> "CONTENT") @@ ("context" :> "CONTEXT") @@
    ("coping" :> "COPING") @@ ("critical" :> "CRITICAL") @@
    ("current" :> "CURRENT") @@ ("direct" :> "DIRECT") @@
    ("duration" :> "DURATION") @@ ("effectiveness" :> "EFFECTIVENESS") @@
    ("expectation" :> "EXPECTATION") @@ ("format" :> "FORMAT") @@
    ("frequency" :> "FREQUENCY") @@ ("goal" :> "GOAL") @@
    ("good" :> "GOOD") @@ ("hello" :> "HELLO") @@ ("high" :> "HIGH") @@
    ("history" :> "HISTORY") @@ ("http" :> "HTTP") @@
    ("immediate" :> "IMMEDIATE") @@ ("improvement" :> "IMPROVEMENT") @@
    ("info" :> "INFO") @@ ("introduction" :> "INTRODUCTION") @@
    ("json" :> "JSON") @@ ("list" :> "LIST") @@ ("long" :> "LONG") @@
    ("low" :> "LOW") @@ ("medium" :> "MEDIUM") @@ ("missing" :> "MISSING") @@
    ("need" :> "NEED") @@ ("null" :> "NULL") @@
    ("occupation" :> "OCCUPATION") @@ ("optional" :> "OPTIONAL") @@
    ("positive" :> "POSITIVE") @@ ("priority" :> "PRIORITY") @@
    ("problem" :> "PROBLEM") @@ ("provided" :> "PROVIDED") @@
    ("questions" :> "QUESTIONS") @@ ("r" :> "R") @@
    ("response" :> "RESPONSE") @@ ("solution" :> "SOLUTION") @@
    ("someday" :> "SOMEDAY") @@ ("status" :> "STATUS") @@
    ("symptoms" :> "SYMPTOMS") @@ ("term" :> "TERM") @@ ("time" :> "TIME") @@
    ("timeline" :> "TIMELINE") @@ ("type" :> "TYPE") @@ ("user" :> "USER") @@
    ("x" :> "X")

\* str.upper on a run of letters
Upper(run) == IF run \in DOMAIN UpperCase THEN UpperCase[run] ELSE run

\* the runs of letters that str.lower changes
LowerCase ==
    ("CONFIDENCE" :> "confidence") @@ ("LOST" :> "lost") @@
    ("MAYBE" :> "maybe") @@ ("NEED" :> "need") @@
    ("NEGATIVE" :> "negative") @@ ("POSITIVE" :> "positive") @@
    ("Positive" :> "positive") @@ ("RESPONSE" :> "response") @@
    ("Response" :> "response") @@ ("TIME" :> "time") @@ ("TYPE" :> "type") @@
    ("Type" :> "type") @@ ("UNCERTAIN" :> "uncertain")

\* str.lower on a piece
LowerPiece(c) == IF c \in DOMAIN LowerCase THEN LowerCase[c] ELSE c

\* ''.join(pieces)
RECURSIVE Join(_)
Join(pieces) ==
    IF pieces = <<>> THEN "" ELSE Head(pieces) \o Join(Tail(pieces))

\* the Python values json.loads returns: a str (its characters), a number,
\* a dict (its items in the order of the text), None, and a list (its
\* elements in order)
JStr(pieces) == [kind |-> "str", s |-> pieces, members |-> <<>>]
JNum(tok) == [kind |-> "num", s |-> <<tok>>, members |-> <<>>]
JObj(members) == [kind |-> "obj", s |-> <<>>, members |-> members]
JNone == [kind |-> "none", s |-> <<>>, members |-> <<>>]
JList(items) ==
    [kind |-> "list", s |-> <<>>,
     members |-> [i \in 1..Len(items) |-> [key |-> <<>>, value |-> items[i]]]]

\* the string literal of a content
LiteralOf(pieces) == CHOOSE tok \in StringLiterals : StringContent[tok] = pieces

\* the text of a JSON value, the way json.dumps writes it
RECURSIVE JsonText(_)
JsonText(v) ==
    CASE v.kind = "str" -> <<LiteralOf(v.s)>>
      [] v.kind = "num" -> v.s
      [] v.kind = "none" -> <<"null">>
      [] v.kind = "list" ->
            LET RECURSIVE elements(_)
                elements(i) ==
                    IF i > Len(v.members) THEN <<>>
                    ELSE JsonText(v.members[i].value) \o
                         (IF i < Len(v.members) THEN <<",", " ">> ELSE <<>>) \o
                         elements(i + 1)
            IN <<"[">> \o elements(1) \o <<"]">>
      [] v.kind = "obj" ->
            LET item(i) == <<LiteralOf(v.members[i].key), ":", " ">> \o
                           JsonText(v.members[i].value) \o
                           (IF i < Len(v.members) THEN <<",", " ">> ELSE <<>>)
                RECURSIVE items(_)
                items(i) == IF i > Len(v.members) THEN <<>>
                            ELSE item(i) \o items(i + 1)
            IN <<"{">> \o items(1) \o <<"}">>

\* what a parser hands back: whether it succeeded, the value, and the
\* position after it
Parsed(ok, value, next) == [ok |-> ok, value |-> value, next |-> next]

\* json.loads on tokens free of whitespace: a value starting at toks[i],
\* the items of an object after its opening brace or after a comma, and
\* the elements of a list after its opening bracket or after a comma
RECURSIVE ParseValue(_, _)
RECURSIVE ParseMembers(_, _, _)
RECURSIVE ParseElements(_, _, _)

ParseValue(toks, i) ==
    IF i > Len(toks) THEN Parsed(FALSE, JNone, i)
    ELSE IF toks[i] \in StringLiterals
    THEN Parsed(TRUE, JStr(StringContent[toks[i]]), i + 1)
    ELSE IF toks[i] \in NumberLiterals
    THEN Parsed(TRUE, JNum(toks[i]), i + 1)
    ELSE IF toks[i] = "null"
    THEN Parsed(TRUE, JNone, i + 1)
    ELSE IF toks[i] = "["
    THEN IF i + 1 <= Len(toks) /\ toks[i + 1] = "]"
         THEN Parsed(TRUE, JList(<<>>), i + 2)
         ELSE ParseElements(toks, i + 1, <<>>)
    ELSE IF toks[i] = "{"
    THEN IF i + 1 <= Len(toks) /\ toks[i + 1] = "}"
         THEN Parsed(TRUE, JObj(<<>>), i + 2)
         ELSE ParseMembers(toks, i + 1, <<>>)
    ELSE Parsed(FALSE, JNone, i)

ParseMembers(toks, i, acc) ==
    IF i + 1 > Len(toks) \/ toks[i] \notin StringLiterals \/ toks[i + 1] # ":"
    THEN Parsed(FALSE, JNone, i)
    ELSE LET v == ParseValue(toks, i + 2)
             acc2 == Append(acc, [key |-> StringContent[toks[i]], value |-> v.value])
         IN IF ~v.ok \/ v.next > Len(toks) THEN Parsed(FALSE, JNone, i)
            ELSE IF toks[v.next] = "}" THEN Parsed(TRUE, JObj(acc2), v.next + 1)
            ELSE IF toks[v.next] = "," THEN ParseMembers(toks, v.next + 1, acc2)
            ELSE Parsed(FALSE, JNone, i)

ParseElements(toks, i, acc) ==
    LET v == ParseValue(toks, i)
        acc2 == Append(acc, v.value)
    IN IF ~v.ok \/ v.next > Len(toks) THEN Parsed(FALSE, JNone, i)
       ELSE IF toks[v.next] = "]" THEN Parsed(TRUE, JList(acc2), v.next + 1)
       ELSE IF toks[v.next] = "," THEN ParseElements(toks, v.next + 1, acc2)
       ELSE Parsed(FALSE, JNone, i)

\* json.loads(text): the value, or ok FALSE for JSONDecodeError
Loads(text) ==
    LET toks == SelectSeq(text, LAMBDA tok : tok \notin Whitespace)
        r == ParseValue(toks, 1)
    IN IF r.ok /\ r.next = Len(toks) + 1
       THEN [ok |-> TRUE, value |-> r.value]
       ELSE [ok |-> FALSE, value |-> JNone]

\* str.strip on a text
RECURSIVE Strip(_)
Strip(text) ==
    IF text = <<>> THEN <<>>
    ELSE IF Head(text) \in Whitespace THEN Strip(Tail(text))
    ELSE IF text[Len(text)] \in Whitespace THEN Strip(SubSeq(text, 1, Len(text) - 1))
    ELSE text

\* the text split at its line breaks (str.split('\n'))
RECURSIVE Lines(_)
Lines(text) ==
    IF \A i \in 1..Len(text) : text[i] # "\n" THEN <<text>>
    ELSE LET i == CHOOSE k \in 1..Len(text) :
                      text[k] = "\n" /\ \A j \in 1..(k - 1) : text[j] # "\n"
         IN <<SubSeq(text, 1, i - 1)>> \o Lines(SubSeq(text, i + 1, Len(text)))

\* the lines put together again
RECURSIVE Unlines(_)
Unlines(lines) ==
    IF Len(lines) = 1 THEN lines[1]
    ELSE lines[1] \o <<"\n">> \o Unlines(Tail(lines))

\* what an extraction hands back: whether it raised, and the text returned
Extracted(raised, text) == [raised |-> raised, text |-> text]

\* a token that holds two slashes; what is left of it when the text from
\* the slashes on is cut away
HoldsComment(tok) == \E i \in 1..Len(Pieces(tok)) : Pieces(tok)[i] = "//"
CutAtComment(tok) == IF tok = "\"http://x\"" THEN "\"http:" ELSE ""

\* re.sub(r'//.*$', '', text, flags=re.MULTILINE): every line loses what
\* stands from its first two slashes on
RemoveComments(text) ==
    LET cut(line) ==
            IF \A i \in 1..Len(line) : ~HoldsComment(line[i]) THEN line
            ELSE LET i == CHOOSE k \in 1..Len(line) :
                              /\ HoldsComment(line[k])
                              /\ \A j \in 1..(k - 1) : ~HoldsComment(line[j])
                 IN SubSeq(line, 1, i - 1) \o
                    (IF CutAtComment(line[i]) = "" THEN <<>>
                     ELSE <<CutAtComment(line[i])>>)
        lines == Lines(text)
    IN Unlines([i \in 1..Len(lines) |-> cut(lines[i])])

\* re.sub(r'\s+', ' ', text): every run of whitespace becomes one blank
RECURSIVE CollapseWhitespace(_)
CollapseWhitespace(text) ==
    IF text = <<>> THEN <<>>
    ELSE IF Head(text) \in Whitespace
    THEN IF Len(text) > 1 /\ text[2] \in Whitespace
         THEN CollapseWhitespace(Tail(text))
         ELSE <<" ">> \o CollapseWhitespace(Tail(text))
    ELSE <<Head(text)>> \o CollapseWhitespace(Tail(text))

\* re.findall(r'\{[^{}]*\}', text): the places (first, last) of the pairs
\* of braces with no brace between them
FlatObjects(text) ==
    {<<i, j>> \in (1..Len(text)) \X (1..Len(text)) :
        /\ i < j /\ text[i] = "{" /\ text[j] = "}"
        /\ \A k \in (i + 1)..(j - 1) : text[k] \notin {"{", "}"}}

\* ScopeValidator._extract_json_from_markdown
ScopeExtractJson(text) ==
    LET stripped == Strip(text)
        cleaned == CollapseWhitespace(RemoveComments(stripped))
        matches == FlatObjects(cleaned)
        final == CHOOSE m \in matches : \A n \in matches : n[1] <= m[1]
        json_str == Strip(SubSeq(cleaned, final[1], final[2]))
    IN IF text = <<>> THEN Extracted(TRUE, <<>>)
       ELSE IF /\ stripped # <<>>
               /\ Head(stripped) = "{" /\ stripped[Len(stripped)] = "}"
               /\ Loads(stripped).ok
       THEN Extracted(FALSE, stripped)
       ELSE IF matches = {} THEN Extracted(TRUE, <<>>)
       ELSE IF ~Loads(json_str).ok THEN Extracted(TRUE, <<>>)
       ELSE Extracted(FALSE, json_str)

\* the first place from i on that holds no whitespace (past the end if
\* there is none)
SkipWhitespace(text, i) ==
    IF \E k \in i..Len(text) : text[k] \notin Whitespace
    THEN CHOOSE k \in i..Len(text) :
            text[k] \notin Whitespace /\ \A j \in i..(k - 1) : text[j] \in Whitespace
    ELSE Len(text) + 1

\* where the match of ```(?:json)?\s*({[\s\S]*?})\s*``` that starts at the
\* fence at f has its group: the brace after the fence, the word json and
\* whitespace, up to the first closing brace that whitespace and a fence
\* follow; <<0, 0>> when there is no match at f
FencedGroup(text, f) ==
    LET after == IF f + 1 <= Len(text) /\ text[f + 1] = "json" THEN f + 2 ELSE f + 1
        open == SkipWhitespace(text, after)
        closes == {q \in (open + 1)..Len(text) :
                      /\ text[q] = "}"
                      /\ SkipWhitespace(text, q + 1) <= Len(text)
                      /\ text[SkipWhitespace(text, q + 1)] = "FENCE"}
    IN IF text[f] = "FENCE" /\ open <= Len(text) /\ text[open] = "{" /\ closes # {}
       THEN <<open, CHOOSE q \in closes : \A r \in closes : q <= r>>
       ELSE <<0, 0>>

\* PrivacyChecker._extract_json_from_markdown
PrivacyExtractJson(text) ==
    LET fences == {f \in 1..Len(text) : FencedGroup(text, f) # <<0, 0>>}
        first == CHOOSE f \in fences : \A g \in fences : f <= g
        group == FencedGroup(text, first)
        opens == {i \in 1..Len(text) :
                     text[i] = "{" /\ \E j \in (i + 1)..Len(text) : text[j] = "}"}
        open == CHOOSE i \in opens : \A j \in opens : i <= j
        close == CHOOSE j \in (open + 1)..Len(text) :
                    text[j] = "}" /\ \A k \in (open + 1)..(j - 1) : text[k] # "}"
    IN IF fences # {}
       THEN Extracted(FALSE, Strip(SubSeq(text, group[1], group[2])))
       ELSE IF opens # {}
       THEN Extracted(FALSE, Strip(SubSeq(text, open, close)))
       ELSE Extracted(FALSE, Strip(text))

\* the text up to its first fence (str.split('```')[0])
UpToFence(text) ==
    IF \A i \in 1..Len(text) : text[i] # "FENCE" THEN text
    ELSE SubSeq(text, 1, (CHOOSE i \in 1..Len(text) :
                            text[i] = "FENCE" /\ \A j \in 1..(i - 1) : text[j] # "FENCE") - 1)

\* str.startswith
StartsWith(text, prefix) ==
    Len(text) >= Len(prefix) /\ SubSeq(text, 1, Len(prefix)) = prefix

\* the characters of a text: the pieces of its tokens one after another
RECURSIVE Characters(_)
Characters(text) ==
    IF text = <<>> THEN <<>> ELSE Pieces(Head(text)) \o Characters(Tail(text))

\* what is left of a type: ''.join(c for c in type if c.isalpha() or
\* c == '_').upper()
NormaliseType(pieces) ==
    LET kept == SelectSeq(pieces, LAMBDA c : IsAlpha(c) \/ c = "_")
    IN Join([i \in 1..Len(kept) |-> Upper(kept[i])])

\* a str of the given characters, joined
JText(string) == JStr(IF string = "" THEN <<>> ELSE <<string>>)

\* dict.get(key): the value of the last item of that key, or None
DictGet(dict, key) ==
    LET at == {i \in 1..Len(dict.members) : dict.members[i].key = <<key>>}
    IN IF at = {} THEN JNone
       ELSE dict.members[CHOOSE i \in at : \A j \in at : j <= i].value

\* the dict with every item of key 'type' set to the value
WithType(dict, value) ==
    JObj([i \in 1..Len(dict.members) |->
            IF dict.members[i].key = <<"type">>
            THEN [dict.members[i] EXCEPT !.value = value]
            ELSE dict.members[i]])

\* str.split(':')[1] on characters: what stands between the first colon
\* and the second; ok FALSE (IndexError) without a colon
SecondPart(chars) ==
    LET colons == {i \in 1..Len(chars) : chars[i] = ":"}
        first == CHOOSE i \in colons : \A j \in colons : i <= j
        later == colons \ {first}
        second == IF later = {} THEN Len(chars) + 1
                  ELSE CHOOSE i \in later : \A j \in later : i <= j
    IN IF colons = {} THEN [ok |-> FALSE, chars |-> <<>>]
       ELSE [ok |-> TRUE, chars |-> SubSeq(chars, first + 1, second - 1)]

\* str.strip('"')
RECURSIVE StripQuotes(_)
StripQuotes(chars) ==
    IF chars = <<>> THEN <<>>
    ELSE IF Head(chars) = "\"" THEN StripQuotes(Tail(chars))
    ELSE IF chars[Len(chars)] = "\"" THEN StripQuotes(SubSeq(chars, 1, Len(chars) - 1))
    ELSE chars

\* what a parse hands back: whether it raised, and the value
Returned(value) == [raised |-> FALSE, value |-> value]
Raised == [raised |-> TRUE, value |-> JNone]

\* word in text, for a word that is one run of letters: one of the pieces
\* of the text holds it (of the runs of this module, a run holds 'type' or
\* 'response' only when it is that word)
In(word, chars) == \E i \in 1..Len(chars) : chars[i] = word

\* word in line.lower()
InLower(word, chars) == \E i \in 1..Len(chars) : LowerPiece(chars[i]) = word

\* FeedbackAnalyzer._parse_llm_response: the except branch, which reads a
\* type and a response off the lines of a text that is no JSON.  The text
\* must hold 'type' and 'response' as written; the type is read off the
\* first line that holds 'type' in whatever case, the response off the
\* first line that holds 'response' in whatever case; a line without a
\* colon raises IndexError
ParseLines(content) ==
    LET lines == Lines(content)
        type_lines == {i \in 1..Len(lines) : InLower("type", Characters(lines[i]))}
        response_lines ==
            {i \in 1..Len(lines) : InLower("response", Characters(lines[i]))}
        type_line == lines[CHOOSE i \in type_lines : \A j \in type_lines : i <= j]
        response_line ==
            lines[CHOOSE i \in response_lines : \A j \in response_lines : i <= j]
        type_part == SecondPart(Characters(type_line))
        response_part == SecondPart(Characters(response_line))
    IN IF ~In("type", Characters(content)) \/ ~In("response", Characters(content))
       THEN Raised
       ELSE IF ~type_part.ok \/ ~response_part.ok THEN Raised
       ELSE Returned(JObj(<<[key |-> <<"type">>,
                             value |-> JText(NormaliseType(type_part.chars))],
                            [key |-> <<"response">>,
                             value |-> JStr(StripQuotes(Strip(response_part.chars)))]>>))

\* FeedbackAnalyzer._parse_llm_response
ParseLLMResponse(content) ==
    LET inner == IF StartsWith(content, <<"FENCE", "json", "\n">>)
                 THEN UpToFence(SubSeq(content, 4, Len(content)))
                 ELSE IF StartsWith(content, <<"FENCE", "\n">>)
                 THEN UpToFence(SubSeq(content, 3, Len(content)))
                 ELSE content
        result == Loads(inner)
        type == DictGet(result.value, "type")
    IN IF ~result.ok THEN ParseLines(inner)
       ELSE IF result.value.kind # "obj" THEN Raised
       ELSE IF type.kind = "str"
       THEN Returned(WithType(result.value, JText(NormaliseType(type.s))))
       ELSE Returned(result.value)

----------------------------------------------------------------------------
(* app.py: the session table and the request handlers.  app.run() starts   *)
(* the development server, which serves every request in a thread of its   *)
(* own, and neither app.py nor the dialogue manager takes a lock: the      *)
(* interpreter can switch threads between any two lines.  A request is     *)
(* therefore a sequence of steps, one for each line that reads or writes   *)
(* the session table, a front-end record or a session dict of the          *)
(* dialogue manager, and the steps of another request come in between.     *)
(* A step takes with it the lines next to it that touch nothing shared;    *)
(* the wait for the stage calls goes with the first line after it that     *)
(* touches the session dict.                                               *)

Restrict(f, S) == [x \in S |-> f[x]]

Least(S) == CHOOSE k \in S : \A j \in S : k <= j

\* create_session: the record stored under a new uuid.  idle tells that
\* last_active is more than MAX_INACTIVE_TIME behind the clock; replied
\* counts the chat requests on the session that were answered with a reply
\* (the code keeps no such count: it is what the properties measure the
\* messages against)
NewFrontSession ==
    [messages |-> <<>>, state |-> "initial", idle |-> FALSE, replied |-> 0]

\* what a request found when it took the record of its session out of the
\* table: nothing yet
NothingFound == [found |-> FALSE, state |-> NoneStr, messages |-> <<>>]

\* what get_session_status and get_session_history answer with: the state
\* string and the number of messages, or the list of messages
NoBody == [state |-> NoneStr, message_count |-> 0, messages |-> <<>>]

\* what process_input did in a turn: the session dict and state it found,
\* the stage outcomes of the turn, the returned dict (or that it raised),
\* the stages called and the one that raised, and the message list given
\* to the Problem Analyzer
NoTurn ==
    [raised |-> FALSE, resp |-> NoResponse, pre_state |-> NoneStr,
     pre_session |-> EmptyDict, out |-> UnusedOutcomes,
     calls |-> <<>>, failed |-> NoneStr, messages |-> <<>>]

\* a request thread: where it is in its handler (pc), the request it
\* serves (the handler, the session_id and the message the client sent),
\* the session it works on and whether it created it, the iterator and the
\* list of cleanup_inactive_sessions (stale: the entries that were idle at
\* its current_time and have not been touched since; used, seen, left: the
\* size of the table when the iterator was made, the last key it gave and
\* the number of keys it has still to give; expired: expired_sessions),
\* the dialogue state and session dict process_input read, what the turn
\* did, the front-end record the handler holds when the table has lost it,
\* and what the handler has read for its answer.  The code keeps nothing
\* like the last two fields, which the properties read: alone tells that,
\* since the request found its session, no other request has been in
\* flight on the same session and no sweep has taken the session out of
\* the table; found is the state and the messages of the record when the
\* request took it out of the table
ThreadIds == {1, 2}

IdleThread ==
    [pc |-> "idle", op |-> "none", client |-> NoId, sid |-> NoId,
     created |-> FALSE, message |-> NoMessage,
     stale |-> {}, used |-> 0, seen |-> NoId, left |-> 0, expired |-> {},
     state |-> NoneStr, snapshot |-> EmptyDict, turn |-> NoTurn,
     held |-> NewFrontSession, body |-> NoBody,
     alone |-> TRUE, found |-> NothingFound]

\* the ids in use: the keys of the table and of DialogueManager.sessions,
\* and the ids a request holds (as its session, in its iterator or in its
\* expired_sessions)
UsedIds ==
    DOMAIN sessions \cup DOMAIN active_sessions
       \cup {threads[t].sid : t \in ThreadIds}
       \cup {threads[t].seen : t \in ThreadIds}
       \cup UNION {threads[t].stale \cup threads[t].expired : t \in ThreadIds}
       \cup {NoId}

\* uuid.uuid4(): an id never handed out before.  Ids are opaque tokens; the
\* model hands out the number after the greatest one in use, so that the
\* order of the ids is the order in which the table got its keys.  There
\* is no limit to the ids: a run creates as many sessions as it takes chat
\* requests
FreshId == (CHOOSE k \in UsedIds : \A j \in UsedIds : j <= k) + 1

Known(table, session_id) == session_id # NoId /\ session_id \in DOMAIN table

\* the record of a request: the operation, its HTTP status, the session it
\* ran on and whether the request created it, what process_input did, the
\* body of the answer and the exception the request ended with
Outcome(op, status, sid, created, p) ==
    [op |-> op, status |-> status, sid |-> sid, created |-> created,
     pre_state |-> p.pre_state, pre_session |-> p.pre_session, out |-> p.out,
     raised |-> p.raised, resp |-> p.resp,
     calls |-> p.calls, failed |-> p.failed, messages |-> p.messages,
     body |-> NoBody, error |-> NoneStr]

\* no request has been answered since the last one arrived
NoLast == Outcome("none", 0, NoId, FALSE, NoTurn)

\* the record of a request that ended with an exception
Failure(op, sid, created, p, error) ==
    [Outcome(op, 500, sid, created, p) EXCEPT !.error = error]

\* the arrival of a request is counted, and the model stops taking requests
\* after MaxSteps of them
CountedThread ==
    /\ nsteps < MaxSteps
    /\ nsteps' = nsteps + 1
    /\ UNCHANGED <<gate, stagecall>>

\* a later step of a request already taken
Resumed == UNCHANGED <<nsteps, gate, stagecall>>

Init ==
    /\ active_sessions = <<>>
    /\ sessions = <<>>
    /\ nsteps = 0
    /\ last = NoLast
    /\ threads = [t \in ThreadIds |-> IdleThread]
    /\ gate = NoGate
    /\ stagecall = NoStage

\* the text a client sends as the next turn of the session it names
NextText(client_sid) ==
    IF client_sid \in DOMAIN sessions /\ Known(active_sessions, client_sid)
    THEN UserText(Len(sessions[client_sid].history) + 1)
    ELSE UserText(1)

\* the front-end record after chat's two appends and its state update
FrontAfterTurn(record, message, resp) ==
    [record EXCEPT
        !.messages = @ \o <<[role |-> "user", content |-> message],
                            [role |-> "assistant",
                             content |-> Get(resp, "response", "")]>>,
        !.state = Get(resp, "state", @),
        !.replied = @ + 1]

\* threads are interchangeable: a request is taken by the first idle one
Takes(t) ==
    /\ threads[t].pc = "idle"
    /\ \A other \in ThreadIds : threads[other].pc = "idle" => t <= other

\* thread t goes on as the thread record says
Goes(t, thread) ==
    /\ threads' = [threads EXCEPT ![t] = thread]
    /\ UNCHANGED last

\* thread t has found the session its request is about and goes on as the
\* thread record says: a request in flight on the same session is alone no
\* more, and neither is this one
Finds(t, thread) ==
    /\ threads' =
          [u \in ThreadIds |->
              IF u = t
              THEN [thread EXCEPT
                       !.alone = \A o \in ThreadIds \ {t} :
                                    \/ threads[o].pc = "idle"
                                    \/ threads[o].sid # thread.sid]
              ELSE IF threads[u].pc # "idle" /\ threads[u].sid = thread.sid
              THEN [threads[u] EXCEPT !.alone = FALSE]
              ELSE threads[u]]
    /\ UNCHANGED last

\* the request of thread t is answered
Answers(t, outcome) ==
    /\ threads' = [threads EXCEPT ![t] = IdleThread]
    /\ last' = outcome

\* the threads when thread t has taken session sid out of the table: a
\* handler that reads the record it got from the table before goes on
\* reading that record
Orphaned(t, sid) ==
    [u \in ThreadIds |->
        IF u # t /\ threads[u].sid = sid
        THEN IF threads[u].pc \in {"status_state", "status_count",
                                   "history_messages"}
             THEN [threads[u] EXCEPT !.held = active_sessions[sid],
                                     !.alone = FALSE]
             ELSE [threads[u] EXCEPT !.alone = FALSE]
        ELSE threads[u]]

\* where the view of a request starts
View(op) ==
    CASE op = "chat" -> "chat_check"
      [] op = "end_session" -> "end_check"
      [] op = "generate_report" -> "report_check"
      [] op = "get_status" -> "status_check"
      [] op = "get_history" -> "history_check"

\* the thread when cleanup_inactive_sessions has returned
Swept(thread) ==
    [thread EXCEPT !.pc = View(thread.op), !.stale = {}, !.used = 0,
                   !.seen = NoId, !.left = 0, !.expired = {}]

\* before_request and cleanup_inactive_sessions, lines 61-67: a request
\* arrives; current_time is taken, the iterator over the table is made and
\* gives its first item (GET_ITER and the first FOR_ITER stand on one line)
BeforeRequest(t, op, client_sid, message) ==
    /\ CountedThread
    /\ Takes(t)
    /\ UNCHANGED <<active_sessions, sessions>>
    /\ last' = NoLast
    /\ LET keys == DOMAIN active_sessions
           stale == {k \in keys : active_sessions[k].idle}
           request == [IdleThread EXCEPT !.op = op, !.client = client_sid,
                                         !.message = message]
       IN threads' = [threads EXCEPT ![t] =
             IF keys = {}
             THEN [request EXCEPT !.pc = View(op)]
             ELSE [request EXCEPT
                      !.pc = "sweep", !.stale = stale,
                      !.used = Cardinality(keys), !.seen = Least(keys),
                      !.left = Cardinality(keys) - 1,
                      !.expired = stale \cap {Least(keys)}]]

\* cleanup_inactive_sessions, lines 64-67: the loop comes back to the
\* iterator.  A dict iterator raises RuntimeError when the size of the dict
\* is not the size it had when the iterator was made, and when it finds a
\* key after it has given as many as the dict had; it gives the keys in the
\* order they were inserted, the order of the ids.  (The table is never
\* resized: it holds fewer than six keys in all.)
CleanupNext(t) ==
    /\ Resumed
    /\ threads[t].pc = "sweep"
    /\ UNCHANGED <<active_sessions, sessions>>
    /\ LET me == threads[t]
           rest == {k \in DOMAIN active_sessions : k > me.seen}
       IN IF Cardinality(DOMAIN active_sessions) # me.used
          THEN Answers(t, Failure(me.op, NoId, FALSE, NoTurn,
                                  "RuntimeError:size"))
          ELSE IF rest = {}
          THEN Goes(t, IF me.expired = {} THEN Swept(me)
                       ELSE [me EXCEPT !.pc = "sweep_del"])
          ELSE IF me.left = 0
          THEN Answers(t, Failure(me.op, NoId, FALSE, NoTurn,
                                  "RuntimeError:keys"))
          ELSE Goes(t, [me EXCEPT
                           !.seen = Least(rest), !.left = @ - 1,
                           !.expired = @ \cup (me.stale \cap {Least(rest)})])

\* cleanup_inactive_sessions, lines 69-70: del active_sessions[session_id]
\* for the next id of expired_sessions (KeyError when the entry is gone)
CleanupDelete(t) ==
    /\ Resumed
    /\ threads[t].pc = "sweep_del"
    /\ UNCHANGED sessions
    /\ LET me == threads[t]
           sid == Least(me.expired)
       IN IF sid \notin DOMAIN active_sessions
          THEN /\ UNCHANGED active_sessions
               /\ Answers(t, Failure(me.op, NoId, FALSE, NoTurn, "KeyError:del"))
          ELSE /\ active_sessions' =
                     Restrict(active_sessions, DOMAIN active_sessions \ {sid})
               /\ threads' = [Orphaned(t, sid) EXCEPT ![t] =
                                 IF me.expired = {sid} THEN Swept(me)
                                 ELSE [me EXCEPT !.expired = @ \ {sid}]]
               /\ UNCHANGED last

\* chat, lines 90-100: the test for the message (400 without one), the
\* membership test and create_session
ChatCheck(t) ==
    /\ Resumed
    /\ threads[t].pc = "chat_check"
    /\ UNCHANGED sessions
    /\ LET me == threads[t]
           known == Known(active_sessions, me.client)
           sid == IF known THEN me.client ELSE FreshId
       IN IF me.message = NoMessage
          THEN /\ UNCHANGED active_sessions
               /\ Answers(t, Outcome("chat", 400, NoId, FALSE, NoTurn))
          ELSE /\ active_sessions' =
                     IF known THEN active_sessions
                     ELSE active_sessions @@ (sid :> NewFrontSession)
               /\ Finds(t, [me EXCEPT !.pc = "chat_touch", !.sid = sid,
                                      !.created = ~known])

\* update_session_activity, line 56: the membership test
UpdateSessionActivityTest(t) ==
    /\ Resumed
    /\ threads[t].pc = "chat_touch"
    /\ UNCHANGED <<active_sessions, sessions>>
    /\ Goes(t, [threads[t] EXCEPT
                   !.pc = IF threads[t].sid \in DOMAIN active_sessions
                          THEN "chat_touch_write" ELSE "chat_access"])

\* update_session_activity, line 57: last_active is written into the
\* record (KeyError when the entry is gone; chat answers 500, lines
\* 135-140); the entry is then idle for no sweep that has started
UpdateSessionActivity(t) ==
    /\ Resumed
    /\ threads[t].pc = "chat_touch_write"
    /\ UNCHANGED sessions
    /\ LET me == threads[t]
       IN IF me.sid \notin DOMAIN active_sessions
          THEN /\ UNCHANGED active_sessions
               /\ Answers(t, Failure("chat", me.sid, me.created, NoTurn,
                                     "KeyError"))
          ELSE /\ active_sessions' =
                     [active_sessions EXCEPT ![me.sid].idle = FALSE]
               /\ threads' =
                     [u \in ThreadIds |->
                         IF u = t THEN [me EXCEPT !.pc = "chat_access"]
                         ELSE [threads[u] EXCEPT !.stale = @ \ {me.sid}]]
               /\ UNCHANGED last

\* chat, line 106: session_data = active_sessions[session_id] (KeyError
\* when the entry is gone)
ChatAccess(t) ==
    /\ Resumed
    /\ threads[t].pc = "chat_access"
    /\ UNCHANGED <<active_sessions, sessions>>
    /\ LET me == threads[t]
       IN IF me.sid \notin DOMAIN active_sessions
          THEN Answers(t, Failure("chat", me.sid, me.created, NoTurn,
                                  "KeyError"))
          ELSE Goes(t, [me EXCEPT
                           !.pc = "chat_session",
                           !.found = [found |-> TRUE,
                                      state |-> active_sessions[me.sid].state,
                                      messages |->
                                         active_sessions[me.sid].messages]])

\* _get_or_create_session, line 89: the membership test
GetOrCreateSessionTest(t) ==
    /\ Resumed
    /\ threads[t].pc = "chat_session"
    /\ UNCHANGED <<active_sessions, sessions>>
    /\ Goes(t, [threads[t] EXCEPT
                   !.pc = IF threads[t].sid \in DOMAIN sessions
                          THEN "chat_get" ELSE "chat_create"])

\* _get_or_create_session, lines 90-103: the new dict is stored.  (The id
\* has reached no client yet, so that no other request stores a dict under
\* it.)
GetOrCreateSessionCreate(t) ==
    /\ Resumed
    /\ threads[t].pc = "chat_create"
    /\ UNCHANGED active_sessions
    /\ sessions' = GetOrCreateSession(sessions, threads[t].sid)
    /\ Goes(t, [threads[t] EXCEPT !.pc = "chat_get"])

\* _get_or_create_session, line 104: self.sessions[session_id], the dict
\* the turn works on from here
GetOrCreateSessionReturn(t) ==
    /\ Resumed
    /\ threads[t].pc = "chat_get"
    /\ threads[t].sid \in DOMAIN sessions
    /\ UNCHANGED <<active_sessions, sessions>>
    /\ Goes(t, [threads[t] EXCEPT !.pc = "chat_dispatch"])

\* process_input, line 77: the read of the state the turn is dispatched
\* in.  A handler that reads the session dict does so in the next step
ProcessInputState(t) ==
    /\ Resumed
    /\ threads[t].pc = "chat_dispatch"
    /\ UNCHANGED <<active_sessions, sessions>>
    /\ LET me == threads[t]
           state == Get(sessions[me.sid], "state", "INITIAL")
       IN Goes(t, [me EXCEPT
                      !.pc = IF state \in {"PROBLEM_ANALYSIS", "QUESTIONNAIRE",
                                           "SOLUTION_GENERATION", "FEEDBACK"}
                             THEN "chat_read" ELSE "chat_stage",
                      !.state = state,
                      !.snapshot = sessions[me.sid]])

\* the reads of the handler the turn is dispatched to, before its stage
\* call: session.get('history') in _handle_problem_analysis (line 246),
\* session.get('analysis_result') for _handle_solution_generation (lines
\* 176 and 182), session.get('solution') in _handle_feedback (line 387)
ChatRead(t) ==
    /\ Resumed
    /\ threads[t].pc = "chat_read"
    /\ UNCHANGED <<active_sessions, sessions>>
    /\ Goes(t, [threads[t] EXCEPT !.pc = "chat_stage",
                                  !.snapshot = sessions[threads[t].sid]])

\* what the handler of the turn held by thread t does with the stage
\* outcomes out
TurnHandled(t, out) ==
    ProcessState(threads[t].state, threads[t].message, threads[t].snapshot, out)

\* the handler wrote the solution into the session dict (not into the
\* literal {} of a turn dispatched in INITIAL)
Solved(state, resp) == state # "INITIAL" /\ "solution" \in resp.keys

\* the handler got a classification from the Feedback Classifier
Classified(state, calls, failed) ==
    /\ state = "FEEDBACK"
    /\ calls = <<"feedback_analyzer">>
    /\ failed = NoneStr

\* the session dict after a handler's own writes, made when its stage call
\* has returned into the dict as it is by then (current)
HandlerWrites(current, state, handled) ==
    LET solved == Solved(state, handled.resp)
        classified == Classified(state, handled.calls, handled.failed)
    IN [current EXCEPT
          !.keys = @ \cup (IF solved THEN {"solution"} ELSE {})
                     \cup (IF classified THEN {"feedback"} ELSE {}),
          !.solution = IF solved THEN handled.session.solution ELSE @,
          !.feedback = IF classified THEN handled.session.feedback ELSE @,
          !.state = IF classified /\ handled.session.state = "ENDED"
                    THEN "ENDED" ELSE @]

\* _process_state: the stage calls of the turn held by thread t return with
\* the outcomes out, or one of them raises, and the thread comes to the
\* first line after them that touches the session dict.  When
\* _process_state raises, process_input raises and chat answers 500 (app.py
\* lines 135-140).  Else the line is session['solution'] = the text the
\* generator returned (_handle_solution_generation, line 355), or
\* session['feedback'] = the content and the type (_handle_feedback, lines
\* 401-405), or, for a handler that writes nothing, the state write of
\* _update_session_state (lines 211-212)
Staged(t, out) ==
    /\ threads[t].pc = "chat_stage"
    /\ UNCHANGED active_sessions
    /\ LET me == threads[t]
           d == TurnHandled(t, out)
           p == [raised |-> d.raised, resp |-> d.resp,
                 pre_state |-> me.state, pre_session |-> me.snapshot,
                 out |-> out, calls |-> d.calls, failed |-> d.failed,
                 messages |-> d.messages]
       IN IF d.raised
          THEN /\ UNCHANGED sessions
               /\ Answers(t, Failure("chat", me.sid, me.created, p,
                                     "KeyError:processing_error"))
          ELSE IF Solved(me.state, d.resp)
          THEN /\ sessions' = [sessions EXCEPT ![me.sid] =
                      [@ EXCEPT !.keys = @ \cup {"solution"},
                                !.solution = out.solution.content]]
               /\ Goes(t, [me EXCEPT !.turn = p, !.pc = "chat_reply"])
          ELSE IF Classified(me.state, d.calls, d.failed)
          THEN /\ sessions' = [sessions EXCEPT ![me.sid] =
                      [@ EXCEPT !.keys = @ \cup {"feedback"},
                                !.feedback =
                                   [content |-> me.message,
                                    type |-> Lower(out.feedback.type)]]]
               /\ Goes(t, [me EXCEPT
                              !.turn = p,
                              !.pc = IF d.resp.state = DialogueState.ENDED
                                     THEN "chat_ended" ELSE "chat_state"])
          ELSE /\ sessions' = [sessions EXCEPT ![me.sid] =
                                  WriteState(@, d.resp)]
               /\ Goes(t, [me EXCEPT !.turn = p, !.pc = "chat_history"])

ChatStage(t, out) == Resumed /\ Staged(t, out)

\* _handle_solution_generation, line 358: 'response' of the dict returned
\* is session['solution'] as it is now
ChatReply(t) ==
    /\ Resumed
    /\ threads[t].pc = "chat_reply"
    /\ UNCHANGED <<active_sessions, sessions>>
    /\ Goes(t, [threads[t] EXCEPT
                   !.pc = "chat_reply_solution",
                   !.turn.resp.response = sessions[threads[t].sid].solution])

\* _handle_solution_generation, line 360: 'solution' of the dict returned
\* is session['solution'] as it is now
ChatReplySolution(t) ==
    /\ Resumed
    /\ threads[t].pc = "chat_reply_solution"
    /\ UNCHANGED <<active_sessions, sessions>>
    /\ Goes(t, [threads[t] EXCEPT
                   !.pc = "chat_state",
                   !.turn.resp.solution = sessions[threads[t].sid].solution])

\* _handle_feedback, line 410: session['state'] = DialogueState.ENDED
ChatEnded(t) ==
    /\ Resumed
    /\ threads[t].pc = "chat_ended"
    /\ UNCHANGED active_sessions
    /\ sessions' = [sessions EXCEPT ![threads[t].sid].state = "ENDED"]
    /\ Goes(t, [threads[t] EXCEPT !.pc = "chat_state"])

\* _update_session_state, lines 211-212
ChatState(t) ==
    /\ Resumed
    /\ threads[t].pc = "chat_state"
    /\ UNCHANGED active_sessions
    /\ sessions' = [sessions EXCEPT ![threads[t].sid] =
                       WriteState(@, threads[t].turn.resp)]
    /\ Goes(t, [threads[t] EXCEPT !.pc = "chat_history"])

\* _update_session_state, lines 215-224
ChatHistory(t) ==
    /\ Resumed
    /\ threads[t].pc = "chat_history"
    /\ UNCHANGED active_sessions
    /\ sessions' = [sessions EXCEPT ![threads[t].sid] =
                       AppendHistory(@, threads[t].turn.resp)]
    /\ Goes(t, [threads[t] EXCEPT
                   !.pc = IF "analysis_result" \in threads[t].turn.resp.keys
                          THEN "chat_analysis" ELSE "chat_user"])

\* _update_session_state, lines 227-228
ChatAnalysis(t) ==
    /\ Resumed
    /\ threads[t].pc = "chat_analysis"
    /\ UNCHANGED active_sessions
    /\ sessions' = [sessions EXCEPT ![threads[t].sid] =
                       WriteAnalysisResult(@, threads[t].turn.resp)]
    /\ Goes(t, [threads[t] EXCEPT !.pc = "chat_user"])

\* the table after a write to the record chat holds as session_data: the
\* record is the one the table held at line 106, and a write to it shows in
\* the table as long as the table holds it
FrontWrite(sid, record) ==
    IF sid \in DOMAIN active_sessions
    THEN [active_sessions EXCEPT ![sid] = record]
    ELSE active_sessions

\* the record thread t holds as session_data
FrontRecord(t) ==
    IF threads[t].sid \in DOMAIN active_sessions
    THEN active_sessions[threads[t].sid]
    ELSE threads[t].held

\* chat, lines 115-119: the user message is appended
ChatUser(t) ==
    /\ Resumed
    /\ threads[t].pc = "chat_user"
    /\ UNCHANGED sessions
    /\ LET me == threads[t]
       IN /\ active_sessions' =
                FrontWrite(me.sid,
                    [FrontRecord(t) EXCEPT
                        !.messages = Append(@, [role |-> "user",
                                                content |-> me.message])])
          /\ Goes(t, [me EXCEPT !.pc = "chat_assistant"])

\* chat, lines 120-124: the assistant message is appended
ChatAssistant(t) ==
    /\ Resumed
    /\ threads[t].pc = "chat_assistant"
    /\ UNCHANGED sessions
    /\ LET me == threads[t]
       IN /\ active_sessions' =
                FrontWrite(me.sid,
                    [FrontRecord(t) EXCEPT
                        !.messages =
                           Append(@, [role |-> "assistant",
                                      content |->
                                         Get(me.turn.resp, "response", "")])])
          /\ Goes(t, [me EXCEPT !.pc = "chat_front"])

\* chat, lines 126-133: the state is written into the record and the
\* request is answered with the reply
Fronted(t) ==
    /\ threads[t].pc = "chat_front"
    /\ UNCHANGED sessions
    /\ LET me == threads[t]
       IN /\ active_sessions' =
                FrontWrite(me.sid,
                    [FrontRecord(t) EXCEPT
                        !.state = Get(me.turn.resp, "state", @),
                        !.replied = @ + 1])
          /\ Answers(t, Outcome("chat", 200, me.sid, me.created, me.turn))

ChatFront(t) == Resumed /\ Fronted(t)

\* generate_report, lines 179-185: the membership test
GenerateReportCheck(t) ==
    /\ Resumed
    /\ threads[t].pc = "report_check"
    /\ UNCHANGED <<active_sessions, sessions>>
    /\ LET me == threads[t]
       IN IF ~Known(active_sessions, me.client)
          THEN Answers(t, Outcome("generate_report", 404, NoId, FALSE, NoTurn))
          ELSE Finds(t, [me EXCEPT !.pc = "report_access", !.sid = me.client])

\* generate_report, line 186: active_sessions[session_id] (KeyError when
\* the entry is gone; the handler answers 500, lines 195-200)
GenerateReportAccess(t) ==
    /\ Resumed
    /\ threads[t].pc = "report_access"
    /\ UNCHANGED <<active_sessions, sessions>>
    /\ LET me == threads[t]
       IN IF me.sid \notin DOMAIN active_sessions
          THEN Answers(t, Failure("generate_report", me.sid, FALSE, NoTurn,
                                  "KeyError"))
          ELSE Goes(t, [me EXCEPT
                           !.pc = "report_wait",
                           !.found = [found |-> TRUE,
                                      state |-> active_sessions[me.sid].state,
                                      messages |->
                                         active_sessions[me.sid].messages]])

\* the record of a request that called the Report Compiler
ReportCalled(generated) ==
    [NoTurn EXCEPT !.calls = <<"report_generator">>,
                   !.failed = IF generated THEN NoneStr ELSE "report_generator"]

\* generate_report dropping the session from the table once the report is made
GenerateReportDiscarding(t, generated) ==
    /\ Resumed
    /\ threads[t].pc = "report_wait"
    /\ UNCHANGED sessions
    /\ active_sessions' =
          Restrict(active_sessions, DOMAIN active_sessions \ {threads[t].sid})
    /\ Answers(t, Outcome("generate_report", IF generated THEN 200 ELSE 500,
                          threads[t].sid, FALSE, ReportCalled(generated)))

\* generate_report, lines 188-200: report_generator.generate has returned
\* or raised, and the request is answered
GenerateReport(t, generated) ==
    /\ Resumed
    /\ threads[t].pc = "report_wait"
    /\ UNCHANGED <<active_sessions, sessions>>
    /\ Answers(t, Outcome("generate_report", IF generated THEN 200 ELSE 500,
                          threads[t].sid, FALSE, ReportCalled(generated)))

\* end_session, lines 206-212: the membership test
EndCheck(t) ==
    /\ Resumed
    /\ threads[t].pc = "end_check"
    /\ UNCHANGED <<active_sessions, sessions>>
    /\ LET me == threads[t]
       IN IF ~Known(active_sessions, me.client)
          THEN Answers(t, Outcome("end_session", 404, NoId, FALSE, NoTurn))
          ELSE Finds(t, [me EXCEPT !.pc = "end_access", !.sid = me.client])

\* end_session, line 215: active_sessions[session_id] (KeyError when the
\* entry is gone; the handler answers 500, lines 232-237)
EndAccess(t) ==
    /\ Resumed
    /\ threads[t].pc = "end_access"
    /\ UNCHANGED <<active_sessions, sessions>>
    /\ LET me == threads[t]
       IN IF me.sid \notin DOMAIN active_sessions
          THEN Answers(t, Failure("end_session", me.sid, FALSE, NoTurn,
                                  "KeyError"))
          ELSE Goes(t, [me EXCEPT
                           !.pc = "end_report",
                           !.found = [found |-> TRUE,
                                      state |-> active_sessions[me.sid].state,
                                      messages |->
                                         active_sessions[me.sid].messages]])

\* end_session taking the session out of the table whether or not the
\* report was made
EndPopBeforeReport(t, generated) ==
    /\ Resumed
    /\ threads[t].pc = "end_report"
    /\ UNCHANGED sessions
    /\ LET sid == threads[t].sid
       IN IF sid \notin DOMAIN active_sessions
          THEN /\ UNCHANGED active_sessions
               /\ Answers(t, Failure("end_session", sid, FALSE,
                                     ReportCalled(TRUE), "KeyError"))
          ELSE /\ active_sessions' =
                     Restrict(active_sessions, DOMAIN active_sessions \ {sid})
               /\ Answers(t, Outcome("end_session",
                                     IF generated THEN 200 ELSE 500,
                                     sid, FALSE, ReportCalled(generated)))

\* end_session, lines 216-237: the report generator has returned or raised;
\* active_sessions.pop(session_id) (KeyError when the entry is gone)
EndPop(t, generated) ==
    /\ Resumed
    /\ threads[t].pc = "end_report"
    /\ UNCHANGED sessions
    /\ LET sid == threads[t].sid
       IN IF ~generated
          THEN /\ UNCHANGED active_sessions
               /\ Answers(t, Failure("end_session", sid, FALSE,
                                     ReportCalled(FALSE), "report_generator"))
          ELSE IF sid \notin DOMAIN active_sessions
          THEN /\ UNCHANGED active_sessions
               /\ Answers(t, Failure("end_session", sid, FALSE,
                                     ReportCalled(TRUE), "KeyError"))
          ELSE /\ active_sessions' =
                     Restrict(active_sessions, DOMAIN active_sessions \ {sid})
               /\ threads' = [Orphaned(t, sid) EXCEPT ![t] = IdleThread]
               /\ last' = Outcome("end_session", 200, sid, FALSE,
                                  ReportCalled(TRUE))

\* get_session_status, lines 145-149: the membership test
GetSessionStatusCheck(t) ==
    /\ Resumed
    /\ threads[t].pc = "status_check"
    /\ UNCHANGED <<active_sessions, sessions>>
    /\ LET me == threads[t]
       IN IF ~Known(active_sessions, me.client)
          THEN Answers(t, Outcome("get_status", 404, NoId, FALSE, NoTurn))
          ELSE Finds(t, [me EXCEPT !.pc = "status_access", !.sid = me.client])

\* get_session_status, line 151: active_sessions[session_id] (KeyError when
\* the entry is gone; nothing catches it and the server answers 500)
GetSessionStatusAccess(t) ==
    /\ Resumed
    /\ threads[t].pc = "status_access"
    /\ UNCHANGED <<active_sessions, sessions>>
    /\ LET me == threads[t]
       IN IF me.sid \notin DOMAIN active_sessions
          THEN Answers(t, Failure("get_status", me.sid, FALSE, NoTurn,
                                  "KeyError"))
          ELSE Goes(t, [me EXCEPT
                           !.pc = "status_state",
                           !.found = [found |-> TRUE,
                                      state |-> active_sessions[me.sid].state,
                                      messages |->
                                         active_sessions[me.sid].messages]])

\* get_session_status, line 156: session_data['state'] is read
GetSessionStatusState(t) ==
    /\ Resumed
    /\ threads[t].pc = "status_state"
    /\ UNCHANGED <<active_sessions, sessions>>
    /\ LET me == threads[t]
       IN Goes(t, [me EXCEPT !.pc = "status_count",
                             !.body.state = FrontRecord(t).state])

\* get_session_status reporting the number of turns
GetSessionStatusCountingTurns(t) ==
    /\ Resumed
    /\ threads[t].pc = "status_count"
    /\ UNCHANGED <<active_sessions, sessions>>
    /\ LET me == threads[t]
       IN Answers(t, [Outcome("get_status", 200, me.sid, FALSE, NoTurn)
                         EXCEPT !.body =
                            [me.body EXCEPT !.message_count =
                                Len(FrontRecord(t).messages) \div 2]])

\* get_session_status, lines 157-158: len(session_data['messages']) is
\* read and the request is answered
GetSessionStatus(t) ==
    /\ Resumed
    /\ threads[t].pc = "status_count"
    /\ UNCHANGED <<active_sessions, sessions>>
    /\ LET me == threads[t]
       IN Answers(t, [Outcome("get_status", 200, me.sid, FALSE, NoTurn)
                         EXCEPT !.body =
                            [me.body EXCEPT !.message_count =
                                Len(FrontRecord(t).messages)]])

\* get_session_history, lines 163-167: the membership test
GetSessionHistoryCheck(t) ==
    /\ Resumed
    /\ threads[t].pc = "history_check"
    /\ UNCHANGED <<active_sessions, sessions>>
    /\ LET me == threads[t]
       IN IF ~Known(active_sessions, me.client)
          THEN Answers(t, Outcome("get_history", 404, NoId, FALSE, NoTurn))
          ELSE Finds(t, [me EXCEPT !.pc = "history_access", !.sid = me.client])

\* get_session_history, line 169: active_sessions[session_id] (KeyError
\* when the entry is gone; nothing catches it and the server answers 500)
GetSessionHistoryAccess(t) ==
    /\ Resumed
    /\ threads[t].pc = "history_access"
    /\ UNCHANGED <<active_sessions, sessions>>
    /\ LET me == threads[t]
       IN IF me.sid \notin DOMAIN active_sessions
          THEN Answers(t, Failure("get_history", me.sid, FALSE, NoTurn,
                                  "KeyError"))
          ELSE Goes(t, [me EXCEPT
                           !.pc = "history_messages",
                           !.found = [found |-> TRUE,
                                      state |-> active_sessions[me.sid].state,
                                      messages |->
                                         active_sessions[me.sid].messages]])

\* get_session_history, lines 170-173: session_data['messages'] is read and
\* the request is answered
GetSessionHistory(t) ==
    /\ Resumed
    /\ threads[t].pc = "history_messages"
    /\ UNCHANGED <<active_sessions, sessions>>
    /\ LET me == threads[t]
       IN Answers(t, [Outcome("get_history", 200, me.sid, FALSE, NoTurn)
                         EXCEPT !.body.messages =
                            FrontRecord(t).messages])

\* time passes: a session's last_active falls more than MAX_INACTIVE_TIME
\* behind the clock
TimePasses(sid) ==
    /\ nsteps < MaxSteps
    /\ sid \in DOMAIN active_sessions
    /\ ~active_sessions[sid].idle
    /\ active_sessions' = [active_sessions EXCEPT ![sid].idle = TRUE]
    /\ UNCHANGED <<sessions, last, threads, nsteps, gate, stagecall>>

\* the session_id a request carries: none, or an id some answer has carried
\* (still in the table, ended or expired); the id of a session whose first
\* request is still being served has reached no client
ClientIds ==
    (DOMAIN sessions \
        {threads[t].sid : t \in {u \in ThreadIds : threads[u].pc # "idle"
                                                   /\ threads[u].created}})
    \cup {NoId}

ChatArrives ==
    \E t \in ThreadIds : \E c \in ClientIds : \E m \in {NextText(c), NoMessage} :
        BeforeRequest(t, "chat", c, m)

EndArrives ==
    \E t \in ThreadIds : \E c \in ClientIds :
        BeforeRequest(t, "end_session", c, NoMessage)

GenerateReportArrives ==
    \E t \in ThreadIds : \E c \in ClientIds :
        BeforeRequest(t, "generate_report", c, NoMessage)

StatusArrives ==
    \E t \in ThreadIds : \E c \in ClientIds :
        BeforeRequest(t, "get_status", c, NoMessage)

HistoryArrives ==
    \E t \in ThreadIds : \E c \in ClientIds :
        BeforeRequest(t, "get_history", c, NoMessage)

\* a step of the expiry sweep of a request
Sweeps == \E t \in ThreadIds : CleanupNext(t) \/ CleanupDelete(t)

\* a step of a chat request up to its stage calls
ChatReads ==
    \E t \in ThreadIds :
        \/ ChatCheck(t) \/ UpdateSessionActivityTest(t)
        \/ UpdateSessionActivity(t) \/ ChatAccess(t)
        \/ GetOrCreateSessionTest(t) \/ GetOrCreateSessionCreate(t)
        \/ GetOrCreateSessionReturn(t) \/ ProcessInputState(t) \/ ChatRead(t)

\* the stage calls of a chat request return
ChatReturns ==
    \E t \in ThreadIds : \E out \in OutcomesIn(threads[t].state) :
        ChatStage(t, out)

\* a write of a chat request to the session dict or to the front-end record
ChatWrites ==
    \E t \in ThreadIds :
        \/ ChatReply(t) \/ ChatReplySolution(t) \/ ChatEnded(t)
        \/ ChatState(t) \/ ChatHistory(t) \/ ChatAnalysis(t)
        \/ ChatUser(t) \/ ChatAssistant(t) \/ ChatFront(t)

EndSteps ==
    \E t \in ThreadIds :
        EndCheck(t) \/ EndAccess(t) \/ \E g \in BOOLEAN : EndPop(t, g)

GenerateReportSteps ==
    \E t \in ThreadIds :
        \/ GenerateReportCheck(t) \/ GenerateReportAccess(t)
        \/ \E g \in BOOLEAN : GenerateReport(t, g)

StatusSteps ==
    \E t \in ThreadIds :
        \/ GetSessionStatusCheck(t) \/ GetSessionStatusAccess(t)
        \/ GetSessionStatusState(t) \/ GetSessionStatus(t)

HistorySteps ==
    \E t \in ThreadIds :
        \/ GetSessionHistoryCheck(t) \/ GetSessionHistoryAccess(t)
        \/ GetSessionHistory(t)

Clock == \E sid \in DOMAIN active_sessions : TimePasses(sid)

Next ==
    \/ ChatArrives \/ EndArrives \/ GenerateReportArrives
    \/ StatusArrives \/ HistoryArrives
    \/ Sweeps
    \/ ChatReads \/ ChatReturns \/ ChatWrites
    \/ EndSteps \/ GenerateReportSteps \/ StatusSteps \/ HistorySteps
    \/ Clock

Spec == Init /\ [][Next]_vars

----------------------------------------------------------------------------
(* The sessions a run can start from.  A turn that is served while no      *)
(* other request is in flight does what process_input and the three        *)
(* writes of chat do one after the other.                                  *)

\* the store and the table after a turn on session 1 served alone
Served(s, n, out) ==
    LET p == ProcessInput(s.store, UserText(n), 1, out)
        front == IF 1 \in DOMAIN s.table THEN s.table[1] ELSE NewFrontSession
    IN IF p.raised THEN [s EXCEPT !.smooth = FALSE]
       ELSE [store |-> p.store,
             table |-> (1 :> FrontAfterTurn(front, UserText(n), p.resp)),
             smooth |-> s.smooth /\ p.failed = NoneStr]

\* the stores and tables after n turns on session 1, each served alone;
\* smooth tells that no stage call has raised so far
RECURSIVE After(_)
After(n) ==
    IF n = 0 THEN {[store |-> <<>>, table |-> <<>>, smooth |-> TRUE]}
    ELSE UNION {{Served(s, n, out) :
                    out \in OutcomesIn(IF 1 \in DOMAIN s.store
                                       THEN s.store[1].state ELSE "INITIAL")} :
                s \in After(n - 1)}

\* a run that starts from s and takes the given number of requests
Starts(s, requests) ==
    /\ active_sessions = s.table
    /\ sessions = s.store
    /\ nsteps = MaxSteps - requests
    /\ last = NoLast
    /\ threads = [t \in ThreadIds |-> IdleThread]
    /\ gate = NoGate
    /\ stagecall = NoStage

----------------------------------------------------------------------------
(* One request on a session of up to MaxTurns turns.  This specification   *)
(* starts when session 1 has been through up to MaxTurns turns, each       *)
(* served alone and with any outcome of its stage calls, and serves one    *)
(* request more.                                                           *)

InitTurns ==
    \E n \in 0..MaxTurns : \E s \in After(n) : Starts(s, 1)

SpecTurns == InitTurns /\ [][Next]_vars

----------------------------------------------------------------------------
(* The dispatcher on every member of DialogueState.  _process_state takes   *)
(* the state as a parameter of type DialogueState; process_input hands it  *)
(* the state stored for the session, and no handler returns 'error' as a   *)
(* state, so that no session of the running server is ever in ERROR.  The  *)
(* branch of _process_state for a state without a handler is exercised by  *)
(* calling _process_state: this specification starts from a member of      *)
(* DialogueState, the dict of a session and the outcomes of the stage      *)
(* calls, and makes one call.                                              *)

\* the session dicts _process_state is called with: a new one, and those
\* of session 1 after one turn and after two
DispatchSessions ==
    {NewSession} \cup
    {s.store[1] : s \in {x \in After(1) \cup After(MaxTurnsAhead) :
                            1 \in DOMAIN x.store}}

\* a call of _process_state that has not been made yet
DispatchCall(state, session, out) ==
    [op |-> "to_dispatch", state |-> state, session |-> session, out |-> out,
     raised |-> FALSE, resp |-> NoResponse, calls |-> <<>>]

InitDispatch ==
    /\ active_sessions = <<>>
    /\ sessions = <<>>
    /\ nsteps = 0
    /\ last = NoLast
    /\ threads = [t \in ThreadIds |-> IdleThread]
    /\ gate = NoGate
    /\ \E state \in DialogueStates : \E session \in DispatchSessions :
          \E out \in OutcomesIn(state) :
             stagecall = DispatchCall(state, session, out)

\* _process_state(state, user_input, session)
ProcessStateCall ==
    /\ stagecall.op = "to_dispatch"
    /\ LET d == ProcessState(stagecall.state, UserText(1), stagecall.session,
                             stagecall.out)
       IN stagecall' = [stagecall EXCEPT !.op = "dispatch",
                                         !.raised = d.raised,
                                         !.resp = d.resp, !.calls = d.calls]
    /\ UNCHANGED <<active_sessions, sessions, nsteps, last, threads, gate>>

NextDispatch == ProcessStateCall

SpecDispatch == InitDispatch /\ [][NextDispatch]_vars

----------------------------------------------------------------------------
(* Two requests at a time on a session that exists.  The specifications   *)
(* start when session 1 has been through one turn (SpecThreads), or        *)
(* through two turns that brought it to FEEDBACK (SpecFeedbackThreads), no *)
(* stage call having raised, and serve two requests, which the server      *)
(* takes one after the other or both at a time.                            *)

InitThreads ==
    \E s \in {x \in After(1) : x.smooth} : Starts(s, 2)

SpecThreads == InitThreads /\ [][Next]_vars

InitFeedbackThreads ==
    \E s \in {x \in After(MaxTurnsAhead) :
                 x.smooth /\ x.store[1].state = "FEEDBACK"} :
        Starts(s, 2)

SpecFeedbackThreads == InitFeedbackThreads /\ [][Next]_vars

----------------------------------------------------------------------------
(* The question gates on their own.  The dialogue manager constructs a     *)
(* QuestionValidator and never calls it, so the gates are exercised by     *)
(* calling them: this specification starts from a question, a role and     *)
(* the replies the generation service would give, and makes one call.      *)

\* the scope reply drawn for the long questions and the pattern questions:
\* the validator answers them before it would read a reply
ValidScopeOutcome == [ok |-> TRUE, result |-> ScopeReply(TRUE, 90, "psychology", "safe")]

InitValidate ==
    /\ active_sessions = <<>>
    /\ sessions = <<>>
    /\ nsteps = 0
    /\ last = Outcome("none", 0, NoId, FALSE, NoTurn)
    /\ threads = [t \in ThreadIds |-> IdleThread]
    /\ stagecall = NoStage
    /\ gate \in {Asked(q, r, po, so) :
                    q \in GateQuestions \cup NameQuestions, r \in UserRoles,
                    po \in PrivacyOutcomes, so \in ScopeOutcomes}
               \cup {Asked(q, r, po, ValidScopeOutcome) :
                        q \in LongQuestions \cup PatternQuestions,
                        r \in UserRoles, po \in PrivacyOutcomes}

\* privacy_checker.check_privacy(question)
CheckPrivacyCall ==
    /\ gate.op = "asked"
    /\ LET p == CheckPrivacy(gate.question, gate.privacy_reply)
       IN gate' = [gate EXCEPT !.op = "check_privacy", !.raised = p.raised,
                               !.privacy = p.value, !.calls = p.calls]
    /\ UNCHANGED <<active_sessions, sessions, nsteps, last, threads, stagecall>>

\* scope_validator.validate_question(question, role)
ScopeValidateCall ==
    /\ gate.op = "asked"
    /\ LET v == ScopeValidateQuestion(gate.question, gate.role, gate.scope_reply)
       IN gate' = [gate EXCEPT !.op = "scope_validate", !.raised = v.raised,
                               !.scope = v.value, !.calls = v.calls]
    /\ UNCHANGED <<active_sessions, sessions, nsteps, last, threads, stagecall>>

\* question_validator.validate_question(question, role)
ValidateQuestionCall ==
    /\ gate.op = "asked"
    /\ LET v == ValidateQuestion(gate.question, gate.role,
                                 gate.privacy_reply, gate.scope_reply)
       IN gate' = [gate EXCEPT !.op = "validate_question",
                               !.validation = v.result, !.calls = v.calls,
                               !.gates = v.gates]
    /\ UNCHANGED <<active_sessions, sessions, nsteps, last, threads, stagecall>>

NextValidate == CheckPrivacyCall \/ ScopeValidateCall \/ ValidateQuestionCall

SpecValidate == InitValidate /\ [][NextValidate]_vars

----------------------------------------------------------------------------
(* The routines that take the JSON out of a reply, on their own: this      *)
(* specification starts from a reply of the generation service, a JSON     *)
(* object written plainly or between the fences of a markdown code block,  *)
(* and hands it to one of the routines and then to json.loads, as the      *)
(* stage does.                                                             *)

\* the deepest nesting of the objects of the replies
MaxNesting == 2

\* the values that are no objects: a string, a number, a string with two
\* slashes in it
ReplyAtoms == {JStr(<<"POSITIVE">>), JNum("1"), JStr(<<"http", ":", "//", "x">>)}

\* the objects of nesting up to depth: no item, one item, or the two items
\* 'type' and 'a', one of them at least no object
RECURSIVE ReplyObjects(_)
ReplyObjects(depth) ==
    LET values == IF depth <= 1 THEN ReplyAtoms
                  ELSE ReplyAtoms \cup ReplyObjects(depth - 1)
        item(k, v) == [key |-> <<k>>, value |-> v]
    IN {JObj(<<>>)} \cup
       {JObj(<<item(k, v)>>) : k \in {"type", "a"}, v \in values} \cup
       {JObj(<<item("type", v), item("a", w)>>) : v \in ReplyAtoms, w \in values} \cup
       {JObj(<<item("type", v), item("a", w)>>) : v \in values, w \in ReplyAtoms}

\* the reply: the text as it is, or between ```json and ```, or between ```
\* and ```
ReplyForms == {"plain", "json", "bare"}
Wrap(form, text) ==
    CASE form = "plain" -> text
      [] form = "json" -> <<"FENCE", "json", "\n">> \o text \o <<"\n", "FENCE">>
      [] form = "bare" -> <<"FENCE", "\n">> \o text \o <<"\n", "FENCE">>

\* check_privacy: json.loads(self._extract_json_from_markdown(content))
PrivacyParse(content) ==
    LET e == PrivacyExtractJson(content)
    IN IF e.raised \/ ~Loads(e.text).ok THEN Raised
       ELSE Returned(Loads(e.text).value)

\* validate_question: json.loads(self._extract_json_from_markdown(content))
ScopeParse(content) ==
    LET e == ScopeExtractJson(content)
    IN IF e.raised \/ ~Loads(e.text).ok THEN Raised
       ELSE Returned(Loads(e.text).value)

\* a reply that no routine has read yet
Reply(object, form) ==
    [op |-> "reply", object |-> object, form |-> form,
     content |-> Wrap(form, JsonText(object)),
     raised |-> FALSE, value |-> JNone]

InitExtract ==
    /\ active_sessions = <<>>
    /\ sessions = <<>>
    /\ nsteps = 0
    /\ last = Outcome("none", 0, NoId, FALSE, NoTurn)
    /\ threads = [t \in ThreadIds |-> IdleThread]
    /\ gate = NoGate
    /\ stagecall \in {Reply(o, f) : o \in ReplyObjects(MaxNesting), f \in ReplyForms}

\* the reply read by the routine: the record of the call
Read(op, r) ==
    /\ stagecall.op = "reply"
    /\ stagecall' = [stagecall EXCEPT !.op = op, !.raised = r.raised,
                                      !.value = r.value]
    /\ UNCHANGED <<active_sessions, sessions, nsteps, last, threads, gate>>

\* PrivacyChecker.check_privacy reading the reply
PrivacyParseCall == Read("privacy_checker", PrivacyParse(stagecall.content))

\* ScopeValidator.validate_question reading the reply
ScopeParseCall == Read("scope_validator", ScopeParse(stagecall.content))

\* FeedbackAnalyzer.analyze reading the reply
FeedbackParseCall == Read("feedback_analyzer", ParseLLMResponse(stagecall.content))

NextExtract == PrivacyParseCall \/ ScopeParseCall \/ FeedbackParseCall

SpecExtract == InitExtract /\ [][NextExtract]_vars

----------------------------------------------------------------------------
(* modules/feedback_analyzer.py: the Feedback Classifier, called on its    *)
(* own and by a turn of a session in FEEDBACK.  A feedback is the sequence *)
(* of its characters: an ordinary character (U+597D), a blank, a line      *)
(* break and the control character U+0007.                                 *)

MaxFeedbackLen == 2

FeedbackChars == {"hao", " ", "\n", "BEL"}

\* ord(c)
Ord(c) ==
    CASE c = "BEL" -> 7
      [] c = "\n" -> 10
      [] c = " " -> 32
      [] OTHER -> 22909

\* analyze refuses a feedback of more characters than this
MaxFeedbackChars == 5000

\* feedbacks of 5000 and of 5001 characters
LongFeedbacks ==
    {[i \in 1..MaxFeedbackChars |-> "hao"], [i \in 1..(MaxFeedbackChars + 1) |-> "hao"]}

Feedbacks == UNION {[1..n -> FeedbackChars] : n \in 0..MaxFeedbackLen}

\* the solutions handed to analyze: none, an ordinary one, one with a
\* control character
SolutionChars == {<<>>, <<"hao">>, <<"BEL">>}

\* the characters of a solution text of SolutionTexts
CharsOf(solution) == IF solution = "" THEN <<>> ELSE <<"hao">>

\* what the generation service answers to the feedback prompt: the call
\* raises (ok is FALSE), or the content is a text
FeedbackTypeLiterals ==
    {<<"POSITIVE">>, <<"positive">>, <<" ", "Positive", ".">>,
     <<"POSITIVE", "(", "kending", ")">>, <<"NEGATIVE">>, <<"UNCERTAIN">>,
     <<"NEED", "_", "TIME">>, <<"need", " ", "time">>,
     <<"LOST", "_", "CONFIDENCE">>, <<"MAYBE">>, <<>>,
     <<"hello", " ", "POSITIVE">>, <<"long", "_", "term">>}

\* the object {"type": ..., "response": "r1"}
Classification(type) ==
    JObj(<<[key |-> <<"type">>, value |-> type],
           [key |-> <<"response">>, value |-> JStr(<<"r", "1">>)]>>)

FeedbackContents ==
    {Wrap(f, JsonText(Classification(JStr(t)))) :
        f \in ReplyForms, t \in FeedbackTypeLiterals} \cup
    {JsonText(Classification(JNum("1"))),
     JsonText(JObj(<<[key |-> <<"response">>, value |-> JStr(<<"r", "1">>)]>>)),
     JsonText(JObj(<<[key |-> <<"type">>, value |-> JStr(<<"POSITIVE">>)]>>)),
     JsonText(JObj(<<[key |-> <<"type">>, value |-> JStr(<<"POSITIVE">>)],
                     [key |-> <<"response">>, value |-> JNum("1")]>>)),
     JsonText(JStr(<<"POSITIVE">>)),
     <<"good">>,
     <<"type", ":", " ", "POSITIVE", "\n", "response", ":", " ", "good">>,
     <<"type", ":", " ", "MAYBE", "\n", "response", ":", " ", "good">>,
     <<"type", ":", " ", "hello", " ", "POSITIVE", "\n",
       "response", ":", " ", "good">>,
     <<"Type", ":", " ", "POSITIVE", "\n", "type", ":", " ", "NEGATIVE", "\n",
       "response", ":", " ", "good">>,
     <<"TYPE", ":", " ", "POSITIVE", "\n", "RESPONSE", ":", " ", "good">>,
     <<"Response", ":", " ", "x", "\n", "type", ":", " ", "UNCERTAIN", "\n",
       "response", ":", " ", "good">>,
     <<"type", " ", "POSITIVE", "\n", "response", ":", " ", "good">>,
     <<"{", "\"type\"", ":", " ", "\"POSITIVE\"", ",", " ",
       "\"response\"", ":", " ", "\"r1\"", ",", "}">>}

FeedbackReplyTexts ==
    {[ok |-> FALSE, content |-> <<>>]} \cup
    {[ok |-> TRUE, content |-> c] : c \in FeedbackContents}

\* dict membership: key in dict
DictHas(dict, key) == \E i \in 1..Len(dict.members) : dict.members[i].key = <<key>>

\* FeedbackAnalyzer._validate_input: TRUE when it raises
ValidateInputRaises(feedback, solution) ==
    LET allowed_control_chars == {10, 13, 9}
        invalid(text) ==
            \E i \in 1..Len(text) :
                Ord(text[i]) < 32 /\ Ord(text[i]) \notin allowed_control_chars
    IN \/ Strip(feedback) = <<>>
       \/ Strip(solution) = <<>>
       \/ invalid(feedback)
       \/ invalid(solution)

\* FeedbackAnalyzer._validate_result: TRUE when it raises
ValidateResultRaises(result) ==
    \/ result.kind # "obj"
    \/ ~DictHas(result, "type")
    \/ ~DictHas(result, "response")
    \/ DictGet(result, "type").kind # "str"
    \/ DictGet(result, "response").kind # "str"
    \/ Join(DictGet(result, "type").s) \notin AnalyzerFeedbackTypes

\* what analyze hands back: whether it raised, the dict it returned, and
\* the calls it made to the generation service
Analyzed(raised, value, calls) == [raised |-> raised, value |-> value, calls |-> calls]

\* analyze taking a type it does not know for POSITIVE
FeedbackAnalyzeDefaulting(feedback, solution, reply) ==
    LET parsed == ParseLLMResponse(reply.content)
        called == <<"feedback_analyzer">>
    IN IF ValidateInputRaises(feedback, solution) \/ Len(feedback) > MaxFeedbackChars
       THEN Analyzed(TRUE, JNone, <<>>)
       ELSE IF ~reply.ok \/ parsed.raised THEN Analyzed(TRUE, JNone, called)
       ELSE IF ValidateResultRaises(parsed.value)
       THEN Analyzed(FALSE, Classification(JStr(<<"POSITIVE">>)), called)
       ELSE Analyzed(FALSE, parsed.value, called)

\* FeedbackAnalyzer.analyze
FeedbackAnalyze(feedback, solution, reply) ==
    LET parsed == ParseLLMResponse(reply.content)
        called == <<"feedback_analyzer">>
    IN IF ValidateInputRaises(feedback, solution) \/ Len(feedback) > MaxFeedbackChars
       THEN Analyzed(TRUE, JNone, <<>>)
       ELSE IF ~reply.ok \/ parsed.raised THEN Analyzed(TRUE, JNone, called)
       ELSE IF ValidateResultRaises(parsed.value) THEN Analyzed(TRUE, JNone, called)
       ELSE Analyzed(FALSE, parsed.value, called)

\* the outcome of the Feedback Classifier in a turn: what _handle_feedback
\* reads of analyze's return value
FeedbackOutcomeOf(a) ==
    IF a.raised THEN [ok |-> FALSE, type |-> "", response |-> ""]
    ELSE [ok |-> TRUE, type |-> Join(DictGet(a.value, "type").s),
          response |-> Join(DictGet(a.value, "response").s)]

\* the stores and tables of session 1 when it waits for feedback, after
\* one turn or two
FeedbackStarts ==
    {s \in After(1) \cup After(MaxTurnsAhead) :
        1 \in DOMAIN s.store /\ s.store[1].state = "FEEDBACK"}

\* a feedback that nothing has read yet: for analyze, with a solution; for
\* a turn, with the session it is sent to.  The record of a turn holds the
\* thread that serves it, the reply of the turn, the session when the
\* turn is answered, and whether the turn was alone on its session
FeedbackCall(op, feedback, solution, session, reply) ==
    [op |-> op, feedback |-> feedback, solution |-> solution,
     session |-> session, reply |-> reply,
     raised |-> FALSE, value |-> JNone, calls |-> <<>>,
     resp |-> NoResponse, post |-> session, stages |-> <<>>,
     thread |-> 0, alone |-> TRUE]

\* the reply drawn for the long feedbacks
PositiveReply ==
    [ok |-> TRUE, content |-> JsonText(Classification(JStr(<<"POSITIVE">>)))]

\* the replies drawn for a turn that another request overlaps: a type that
\* is none of the five, POSITIVE and LOST_CONFIDENCE
OverlapReplies ==
    {[ok |-> TRUE,
      content |-> Wrap("json", JsonText(Classification(JStr(<<"need", " ", "time">>))))],
     PositiveReply,
     [ok |-> TRUE,
      content |-> JsonText(Classification(JStr(<<"LOST", "_", "CONFIDENCE">>)))]}

\* the turns drawn: every feedback with a reply that classifies it as
\* POSITIVE, and one feedback with every reply, each served alone (one
\* request); and one feedback with the replies of OverlapReplies, sent to a
\* session of one turn or to one that holds a solution, and served while
\* another chat request may be in flight (two requests)
FeedbackTurns ==
    {[feedback |-> f, start |-> s, reply |-> PositiveReply, requests |-> 1] :
        f \in Feedbacks \cup LongFeedbacks, s \in FeedbackStarts} \cup
    {[feedback |-> <<"hao">>, start |-> s, reply |-> r, requests |-> 1] :
        s \in FeedbackStarts, r \in FeedbackReplyTexts} \cup
    {[feedback |-> <<"hao">>, start |-> s, reply |-> r, requests |-> 2] :
        s \in {x \in FeedbackStarts :
                    /\ x.smooth
                    /\ \/ Len(x.store[1].history) = 1
                       \/ Truthy(Get(x.store[1], "solution", ""))},
        r \in OverlapReplies}

InitFeedback ==
    /\ last = NoLast
    /\ threads = [t \in ThreadIds |-> IdleThread]
    /\ gate = NoGate
    /\ \/ /\ active_sessions = <<>>
          /\ sessions = <<>>
          /\ nsteps = MaxSteps
          /\ stagecall \in
                {FeedbackCall("to_analyze", f, s, NewSession, r) :
                    f \in Feedbacks, s \in SolutionChars,
                    r \in FeedbackReplyTexts} \cup
                {FeedbackCall("to_analyze", f, <<"hao">>, NewSession, PositiveReply) :
                    f \in LongFeedbacks}
       \/ \E c \in FeedbackTurns :
             /\ active_sessions = c.start.table
             /\ sessions = c.start.store
             /\ nsteps = MaxSteps - c.requests
             /\ stagecall = FeedbackCall("to_turn", c.feedback, <<>>,
                                         c.start.store[1], c.reply)

\* feedback_analyzer.analyze(feedback, solution)
FeedbackAnalyzeCall ==
    /\ stagecall.op = "to_analyze"
    /\ LET a == FeedbackAnalyze(stagecall.feedback, stagecall.solution, stagecall.reply)
       IN stagecall' = [stagecall EXCEPT !.op = "analyze", !.raised = a.raised,
                                         !.value = a.value, !.calls = a.calls]
    /\ UNCHANGED <<active_sessions, sessions, nsteps, last, threads, gate>>

\* the client sends the feedback drawn: a chat request on session 1
FeedbackTurnArrives ==
    /\ stagecall.op = "to_turn"
    /\ \A t \in ThreadIds : threads[t].pc = "idle"
    /\ \E t \in ThreadIds : BeforeRequest(t, "chat", 1, NextText(1))

\* another chat request arrives, while the turn is served or after it
FeedbackTurnOvertaken ==
    /\ ~(stagecall.op = "to_turn" /\ \A t \in ThreadIds : threads[t].pc = "idle")
    /\ ChatArrives

\* thread t holds the turn that carries the feedback drawn: the first turn
\* dispatched in FEEDBACK whose stage call is made
CarriesFeedback(t) ==
    /\ stagecall.op = "to_turn"
    /\ threads[t].pc = "chat_stage"
    /\ threads[t].state = "FEEDBACK"

\* the record of the turn when thread t has made its stage call: what
\* analyze handed back, when the handler called it, and the stages called
FeedbackTurnRecorded(t, a, stages) ==
    [stagecall EXCEPT
        !.op = "in_turn", !.thread = t,
        !.raised = IF stages # <<>> THEN a.raised ELSE FALSE,
        !.value = IF stages # <<>> THEN a.value ELSE JNone,
        !.calls = IF stages # <<>> THEN a.calls ELSE <<>>,
        !.stages = stages]

\* the handler of thread t goes on with the outcome out of analyze's
\* return value a
FeedbackTurnStaged(t, a, out) ==
    /\ Staged(t, out)
    /\ stagecall' = FeedbackTurnRecorded(t, a, TurnHandled(t, out).calls)

\* the handler of thread t goes on with analyze's return value a
FeedbackTurnAnalyzed(t, a) ==
    FeedbackTurnStaged(t, a, [UnusedOutcomes EXCEPT !.feedback = FeedbackOutcomeOf(a)])

\* _handle_feedback, lines 395-400, in the turn that carries the feedback
\* drawn: feedback_analyzer.analyze is given the feedback and the solution
\* the handler read of the session, the generation service answers with
\* the reply drawn, and the handler goes on with what analyze hands back
FeedbackTurnStage ==
    \E t \in ThreadIds :
        /\ CarriesFeedback(t)
        /\ FeedbackTurnAnalyzed(t,
              FeedbackAnalyze(stagecall.feedback,
                              CharsOf(Get(threads[t].snapshot, "solution", "")),
                              stagecall.reply))
        /\ UNCHANGED <<nsteps, gate>>

\* chat, lines 126-133, in the turn that carries the feedback drawn: the
\* request is answered; the record of the turn takes the reply and the
\* session as it is now
FeedbackTurnAnswer ==
    \E t \in ThreadIds :
        /\ stagecall.op = "in_turn"
        /\ stagecall.thread = t
        /\ Fronted(t)
        /\ stagecall' = [stagecall EXCEPT
                            !.op = "turn",
                            !.resp = threads[t].turn.resp,
                            !.post = sessions[threads[t].sid],
                            !.alone = threads[t].alone]
        /\ UNCHANGED <<nsteps, gate>>

\* the stage calls of a turn that does not carry the feedback drawn
FeedbackTurnOverlaps ==
    \E t \in ThreadIds :
        /\ ~CarriesFeedback(t)
        /\ \E out \in OutcomesIn(threads[t].state) : ChatStage(t, out)

\* the writes of a chat request but for the answer of the turn that
\* carries the feedback drawn
FeedbackTurnWrites ==
    \E t \in ThreadIds :
        \/ ChatReply(t) \/ ChatReplySolution(t) \/ ChatEnded(t)
        \/ ChatState(t) \/ ChatHistory(t) \/ ChatAnalysis(t)
        \/ ChatUser(t) \/ ChatAssistant(t)
        \/ ~(stagecall.op = "in_turn" /\ stagecall.thread = t) /\ ChatFront(t)

NextFeedback ==
    \/ FeedbackAnalyzeCall
    \/ FeedbackTurnArrives \/ FeedbackTurnOvertaken
    \/ Sweeps \/ ChatReads
    \/ FeedbackTurnStage \/ FeedbackTurnOverlaps
    \/ FeedbackTurnWrites \/ FeedbackTurnAnswer
    \/ Clock

SpecFeedback == InitFeedback /\ [][NextFeedback]_vars

----------------------------------------------------------------------------
(* modules/question_generator.py: the Question Generator, called on its    *)
(* own and by the first turn of a session whose analysis misses            *)
(* information.                                                            *)

\* the most entries a content list or a priority list of a reply has
MaxEntries == 4

\* the characters of a key or of a string value written as a name
K(name) == StringContent["\"" \o name \o "\""]

\* key in dict
KeyIn(key, dict) == \E i \in 1..Len(dict.members) : dict.members[i].key = key

\* dict[key]: the value of the last item of that key
Item(dict, key) ==
    LET at == {i \in 1..Len(dict.members) : dict.members[i].key = key}
    IN dict.members[CHOOSE i \in at : \A j \in at : j <= i].value

\* the dict of the items given as <<name, value>> pairs
Dict(pairs) == JObj([i \in 1..Len(pairs) |-> [key |-> K(pairs[i][1]), value |-> pairs[i][2]]])

\* the dict without its items of that key
Without(dict, name) ==
    JObj(SelectSeq(dict.members, LAMBDA item : item.key # K(name)))

\* the dict with the items of that key set to the value
With(dict, name, value) ==
    JObj([i \in 1..Len(dict.members) |->
            IF dict.members[i].key = K(name)
            THEN [dict.members[i] EXCEPT !.value = value]
            ELSE dict.members[i]])

\* a list of n strings
Entries(n, name) == JList([i \in 1..n |-> JStr(K(name))])

\* the analysis results handed to generate: problem and missing_info as the
\* Problem Analyzer returns them, and dicts that lack a field or hold a
\* value of another type
AnalysisDict(result) ==
    Dict(<<<<"problem", JStr(K("problem"))>>,
           <<"missing_info",
             Dict(<<<<"critical", Entries(Len(result.missing_info.critical), "duration")>>,
                    <<"optional", Entries(Len(result.missing_info.optional), "age")>>>>)>>>>)

QuestionInputs ==
    LET whole == {AnalysisDict([problem |-> "p1", missing_info |-> m]) : m \in MissingInfos}
        full == AnalysisDict([problem |-> "p1",
                              missing_info |-> [critical |-> <<"duration">>,
                                                optional |-> <<>>]])
        info == Item(full, K("missing_info"))
    IN whole \cup
       {Without(full, "problem"), Without(full, "missing_info"),
        With(full, "missing_info", JStr(K("critical"))),
        With(full, "missing_info", Without(info, "critical")),
        With(full, "missing_info", Without(info, "optional")),
        With(full, "missing_info", With(info, "critical", JNone)),
        With(full, "missing_info", With(info, "optional", JStr(K("age"))))}

\* the results the generation service is asked for: an introduction, the
\* questions with their format, content and priority, and a closing
QuestionResult(format, content, priority) ==
    Dict(<<<<"introduction", JStr(K("hello"))>>,
           <<"questions", Dict(<<<<"format", JStr(K(format))>>,
                                 <<"content", content>>,
                                 <<"priority", priority>>>>)>>,
           <<"closing", JStr(K("hello"))>>>>)

QuestionResults ==
    LET wellformed == {QuestionResult(f, Entries(n, "hello"), Entries(m, p)) :
                          f \in {"list", "direct", "medium"},
                          n \in 0..MaxEntries, m \in 0..MaxEntries,
                          p \in {"high", "low"}}
        one == QuestionResult("direct", Entries(1, "hello"), Entries(1, "high"))
        questions == Item(one, K("questions"))
    IN wellformed \cup
       {Without(one, "introduction"), Without(one, "questions"),
        Without(one, "closing"), With(one, "closing", JNone),
        With(one, "questions", JStr(K("hello"))),
        With(one, "questions", Without(questions, "format")),
        With(one, "questions", Without(questions, "content")),
        With(one, "questions", Without(questions, "priority")),
        With(one, "questions", With(questions, "format", JNone)),
        With(one, "questions", With(questions, "content", JStr(K("hello")))),
        With(one, "questions", With(questions, "priority", JStr(K("high"))))}

\* what the generation service answers to the question prompt: the call
\* raises (ok is FALSE), or the content is a text: a result, alone, in a
\* fence or between blanks, words, blanks, or nothing
QuestionReplyTexts ==
    {[ok |-> FALSE, content |-> <<>>]} \cup
    {[ok |-> TRUE, content |-> c] :
        c \in {JsonText(r) : r \in QuestionResults} \cup
              {Wrap("json", JsonText(r)) : r \in QuestionResults} \cup
              {<<"\n", " ">> \o JsonText(r) \o <<" ", "\n">> : r \in QuestionResults} \cup
              {<<>>, <<" ">>, <<"good">>, <<" ", "good", "\n">>}}

\* QuestionGenerator._validate_input: TRUE when it raises
QuestionValidateInputRaises(analysis_result) ==
    \/ ~KeyIn(K("problem"), analysis_result)
    \/ ~KeyIn(K("missing_info"), analysis_result)
    \/ LET missing_info == Item(analysis_result, K("missing_info"))
       IN \/ missing_info.kind # "obj"
          \/ \E field \in {"critical", "optional"} :
                \/ ~KeyIn(K(field), missing_info)
                \/ Item(missing_info, K(field)).kind # "list"

\* QuestionGenerator._validate_result: TRUE when it raises
QuestionValidateResultRaises(result) ==
    \/ \E field \in {"introduction", "questions", "closing"} : ~KeyIn(K(field), result)
    \/ Item(result, K("introduction")).kind # "str"
    \/ Item(result, K("questions")).kind # "obj"
    \/ Item(result, K("closing")).kind # "str"
    \/ LET questions == Item(result, K("questions"))
       IN \/ \E field \in {"format", "content", "priority"} : ~KeyIn(K(field), questions)
          \/ Item(questions, K("format")).kind # "str"
          \/ Item(questions, K("content")).kind # "list"
          \/ Item(questions, K("priority")).kind # "list"
          \/ LET format == Item(questions, K("format")).s
                 content == Item(questions, K("content")).members
                 priority == Item(questions, K("priority")).members
             IN \/ format \notin {K("list"), K("direct")}
                \/ Len(content) # Len(priority)
                \/ \E i \in 1..Len(priority) :
                      priority[i].value \notin {JStr(K("high")), JStr(K("medium"))}
                \/ format = K("direct") /\ Len(content) > 3
                \/ format = K("list") /\ Len(content) <= 3

\* what generate hands back: whether it raised and what, the text it
\* returned, and the calls it made to the generation service
Generated(error, text, calls) ==
    [raised |-> error # "", error |-> error, text |-> text, calls |-> calls]

\* QuestionGenerator.generate
QuestionGenerate(analysis_result, reply) ==
    LET called == <<"question_generator">>
    IN IF QuestionValidateInputRaises(analysis_result)
       THEN Generated("ValueError", <<>>, <<>>)
       ELSE IF ~reply.ok THEN Generated("Exception", <<>>, called)
       ELSE IF reply.content = <<>> THEN Generated("ValueError", <<>>, called)
       ELSE Generated("", Strip(reply.content), called)

\* the outcome of the Question Generator in a turn: what
\* _handle_questionnaire reads of generate
QuestionOutcomeOf(g) ==
    [ok |-> ~g.raised, error |-> g.error, text |-> Join(g.text)]

\* an analysis that nothing has read yet: for generate as it is, for a
\* turn as the outcome of the Problem Analyzer.  The record of a turn holds
\* the thread that serves it, the reply of the turn, the session when the
\* turn is answered, and whether the turn was alone on its session
QuestionCall(op, analysis_result, analysis, reply) ==
    [op |-> op, analysis_result |-> analysis_result, analysis |-> analysis,
     reply |-> reply, raised |-> FALSE, error |-> "", text |-> <<>>,
     calls |-> <<>>, resp |-> NoResponse, stages |-> <<>>,
     post |-> NewSession, thread |-> 0, alone |-> TRUE]

\* the analyses of a first turn that lead to the Question Generator
QuestionAnalyses ==
    {a \in AnalyzeOutcomes : a.ok /\ NeedsQuestions(a.result)}

\* the replies drawn for a first turn that another request overlaps: the
\* call raises, and a direct result of four entries
OverlapQuestionReplies ==
    {[ok |-> FALSE, content |-> <<>>],
     [ok |-> TRUE,
      content |-> JsonText(QuestionResult("direct", Entries(MaxEntries, "hello"),
                                          Entries(MaxEntries, "high")))]}

\* the first turns drawn: every analysis with every reply, served alone
\* (one request), and every analysis with the replies of
\* OverlapQuestionReplies, served while another chat request may be in
\* flight (two requests)
QuestionTurns ==
    {[analysis |-> a, reply |-> r, requests |-> 1] :
        a \in QuestionAnalyses, r \in QuestionReplyTexts} \cup
    {[analysis |-> a, reply |-> r, requests |-> 2] :
        a \in QuestionAnalyses, r \in OverlapQuestionReplies}

InitQuestions ==
    /\ active_sessions = <<>>
    /\ sessions = <<>>
    /\ last = NoLast
    /\ threads = [t \in ThreadIds |-> IdleThread]
    /\ gate = NoGate
    /\ \/ /\ nsteps = MaxSteps
          /\ stagecall \in
                {QuestionCall("to_generate", a,
                              [ok |-> FALSE, result |-> InitialAnalysis], r) :
                    a \in QuestionInputs, r \in QuestionReplyTexts}
       \/ \E c \in QuestionTurns :
             /\ nsteps = MaxSteps - c.requests
             /\ stagecall = QuestionCall("to_ask", AnalysisDict(c.analysis.result),
                                         c.analysis, c.reply)

\* question_generator.generate(analysis_result)
QuestionGenerateCall ==
    /\ stagecall.op = "to_generate"
    /\ LET g == QuestionGenerate(stagecall.analysis_result, stagecall.reply)
       IN stagecall' = [stagecall EXCEPT !.op = "generate", !.raised = g.raised,
                                         !.error = g.error, !.text = g.text,
                                         !.calls = g.calls]
    /\ UNCHANGED <<active_sessions, sessions, nsteps, last, threads, gate>>

\* the client sends the first message of a dialogue: a chat request that
\* names no session
QuestionTurnArrives ==
    /\ stagecall.op = "to_ask"
    /\ \A t \in ThreadIds : threads[t].pc = "idle"
    /\ \E t \in ThreadIds : BeforeRequest(t, "chat", NoId, NextText(NoId))

\* another chat request arrives, while the turn is served or after it
QuestionTurnOvertaken ==
    /\ stagecall.op \in {"to_ask", "in_ask", "ask"}
    /\ ~(stagecall.op = "to_ask" /\ \A t \in ThreadIds : threads[t].pc = "idle")
    /\ ChatArrives

\* thread t holds the turn that asks for the questions: the first turn
\* dispatched in INITIAL whose stage calls are made
CarriesQuestions(t) ==
    /\ stagecall.op = "to_ask"
    /\ threads[t].pc = "chat_stage"
    /\ threads[t].state = "INITIAL"

\* the record of the turn when thread t has made its stage calls: what
\* generate handed back and the stages called
QuestionTurnRecorded(t, g, stages) ==
    [stagecall EXCEPT !.op = "in_ask", !.thread = t, !.raised = g.raised,
                      !.error = g.error, !.text = g.text,
                      !.calls = g.calls, !.stages = stages]

\* the handlers of thread t go on with the outcome out of what generate
\* returned (g)
QuestionTurnStaged(t, g, out) ==
    /\ Staged(t, out)
    /\ stagecall' = QuestionTurnRecorded(t, g, TurnHandled(t, out).calls)

\* the handlers of thread t go on with what generate returned to the
\* analysis drawn
QuestionTurnGenerated(t, g) ==
    QuestionTurnStaged(t, g, [UnusedOutcomes EXCEPT
                                 !.analysis = stagecall.analysis,
                                 !.questions = QuestionOutcomeOf(g)])

\* _handle_initial, _handle_problem_analysis and _handle_questionnaire in
\* the turn that asks for the questions: the Problem Analyzer returns the
\* analysis drawn, question_generator.generate is given that analysis, the
\* generation service answers with the reply drawn, and the handlers go on
\* with what generate hands back
QuestionTurnStage ==
    \E t \in ThreadIds :
        /\ CarriesQuestions(t)
        /\ QuestionTurnGenerated(t, QuestionGenerate(stagecall.analysis_result,
                                                     stagecall.reply))
        /\ UNCHANGED <<nsteps, gate>>

\* chat, lines 126-133, in the turn that asks for the questions: the
\* request is answered; the record of the turn takes the reply and the
\* session as it is now
QuestionTurnAnswer ==
    \E t \in ThreadIds :
        /\ stagecall.op = "in_ask"
        /\ stagecall.thread = t
        /\ Fronted(t)
        /\ stagecall' = [stagecall EXCEPT
                            !.op = "ask",
                            !.resp = threads[t].turn.resp,
                            !.post = sessions[threads[t].sid],
                            !.alone = threads[t].alone]
        /\ UNCHANGED <<nsteps, gate>>

\* the stage calls of a turn that does not ask for the questions drawn
QuestionTurnOverlaps ==
    \E t \in ThreadIds :
        /\ ~CarriesQuestions(t)
        /\ \E out \in OutcomesIn(threads[t].state) : ChatStage(t, out)

\* the writes of a chat request but for the answer of the turn that asks
\* for the questions drawn.  (No turn of these runs is dispatched in
\* FEEDBACK: the first turn of a session leaves it in QUESTIONNAIRE or in
\* INITIAL, the second in SOLUTION_GENERATION at most; so no thread comes
\* to the write of ENDED in _handle_feedback, and ChatState serves the
\* state write of _update_session_state only.)
QuestionTurnWrites ==
    \E t \in ThreadIds :
        \/ ChatReply(t) \/ ChatReplySolution(t)
        \/ ChatState(t) \/ ChatHistory(t) \/ ChatAnalysis(t)
        \/ ChatUser(t) \/ ChatAssistant(t)
        \/ ~(stagecall.op = "in_ask" /\ stagecall.thread = t) /\ ChatFront(t)

NextQuestions ==
    \/ QuestionGenerateCall
    \/ QuestionTurnArrives \/ QuestionTurnOvertaken
    \/ Sweeps \/ ChatReads
    \/ QuestionTurnStage \/ QuestionTurnOverlaps
    \/ QuestionTurnWrites \/ QuestionTurnAnswer
    \/ Clock

SpecQuestions == InitQuestions /\ [][NextQuestions]_vars

----------------------------------------------------------------------------
(* modules/report_generator.py: the Report Compiler.  A reply is the       *)
(* sequence of its pieces: the section names and the headers of the three  *)
(* passes in pinyin (the name U+7528 U+6237 U+95EE U+9898 U+4E0E U+8BC9    *)
(* U+6C42 is written yonghuwentiyu, suqiu, since the header suqiu, colon   *)
(* is part of it), the full-width colon (written colon), the bullets, the  *)
(* heading mark ###, blanks, line breaks and an ordinary word.             *)

\* the six section names of a report, in the order of the report
SectionNames ==
    <<<<"yonghuzhusu">>, <<"yonghuwentiyu", "suqiu">>, <<"wentifenxi">>,
      <<"quanweijieshi">>, <<"jiejuefangan">>, <<"jieyu">>>>

\* the string generate splits at for the k-th section: a blank and the name
Delimiter(k) == <<" ">> \o SectionNames[k]

\* whether sep stands in text at position i
At(text, sep, i) ==
    i + Len(sep) - 1 <= Len(text) /\ SubSeq(text, i, i + Len(sep) - 1) = sep

\* str.split(sep)
RECURSIVE Split(_, _)
Split(text, sep) ==
    IF ~Contains(text, sep) THEN <<text>>
    ELSE LET i == CHOOSE k \in 1..Len(text) :
                      At(text, sep, k) /\ \A j \in 1..(k - 1) : ~At(text, sep, j)
         IN <<SubSeq(text, 1, i - 1)>> \o
            Split(SubSeq(text, i + Len(sep), Len(text)), sep)

\* str.replace(mark, '')
Remove(text, mark) == SelectSeq(text, LAMBDA piece : piece # mark)

\* the scan of generate_user_complaint and of generate_problem_analysis
\* over the lines of a reply: a line holding a header of the first bucket
\* or of the second one makes it the current bucket, a line starting with a
\* bullet goes without it to the current bucket
RECURSIVE ScanBullets(_, _, _, _, _)
ScanBullets(lines, current_section, sections, first, second) ==
    IF lines = <<>> THEN sections
    ELSE LET line == Strip(Head(lines))
             rest == Tail(lines)
             cleaned_line == Strip(Tail(line))
         IN IF line = <<>>
            THEN ScanBullets(rest, current_section, sections, first, second)
            ELSE IF \E header \in first : Contains(line, header)
            THEN ScanBullets(rest, 1, sections, first, second)
            ELSE IF \E header \in second : Contains(line, header)
            THEN ScanBullets(rest, 2, sections, first, second)
            ELSE IF current_section # 0 /\ Head(line) \in {"-", "*"} /\ cleaned_line # <<>>
            THEN ScanBullets(rest, current_section,
                             [sections EXCEPT ![current_section] = Append(@, cleaned_line)],
                             first, second)
            ELSE ScanBullets(rest, current_section, sections, first, second)

\* the scan of generate_solution: the bullets after the header of the
\* recommendations, and every line after the header of the conclusion
RECURSIVE ScanSolution(_, _, _)
ScanSolution(lines, current_section, sections) ==
    IF lines = <<>> THEN sections
    ELSE LET line == Strip(Head(lines))
             rest == Tail(lines)
             cleaned_line == Strip(Tail(line))
         IN IF line = <<>>
            THEN ScanSolution(rest, current_section, sections)
            ELSE IF Contains(line, <<"jianyicuoshi", "colon">>)
            THEN ScanSolution(rest, 1, sections)
            ELSE IF Contains(line, <<"zongjie", "colon">>)
            THEN ScanSolution(rest, 2, sections)
            ELSE IF current_section = 1 /\ Head(line) \in {"-", "*"}
            THEN IF cleaned_line # <<>>
                 THEN ScanSolution(rest, 1, [sections EXCEPT ![1] = Append(@, cleaned_line)])
                 ELSE ScanSolution(rest, 1, sections)
            ELSE IF current_section = 2
            THEN ScanSolution(rest, 2, [sections EXCEPT ![2] = Append(@, line)])
            ELSE ScanSolution(rest, current_section, sections)

\* what a pass hands back: whether it raised, and its two buckets
Scanned(raised, sections) == [raised |-> raised, sections |-> sections]

\* a pass: the reply is read when the call returned a content, and the
\* pass raises when one of its buckets is empty
Pass(reply, sections) ==
    IF ~reply.ok \/ reply.content = <<>> THEN Scanned(TRUE, <<<<>>, <<>>>>)
    ELSE IF sections[1] = <<>> \/ sections[2] = <<>> THEN Scanned(TRUE, <<<<>>, <<>>>>)
    ELSE Scanned(FALSE, sections)

\* ReportGenerator.generate_user_complaint
GenerateUserComplaint(reply) ==
    Pass(reply, ScanBullets(Lines(reply.content), 0, <<<<>>, <<>>>>,
                            {<<"zhuyaowenti", "colon">>, <<"yonghuzhusu", "colon">>},
                            {<<"suqiu", "colon">>, <<"yonghuwentiyu", "suqiu", "colon">>}))

\* ReportGenerator.generate_problem_analysis
GenerateProblemAnalysis(reply) ==
    Pass(reply, ScanBullets(Lines(reply.content), 0, <<<<>>, <<>>>>,
                            {<<"wentixingzhi", "colon">>}, {<<"zhuanyejieshi", "colon">>}))

\* ReportGenerator.generate_solution
GenerateSolution(reply) ==
    Pass(reply, ScanSolution(Lines(reply.content), 0, <<<<>>, <<>>>>))

\* the splits taking the first two parts whatever their number
RECURSIVE SplitSectionsLenient(_, _, _)
SplitSectionsLenient(part1, k, optimized_sections) ==
    IF k = 0 THEN [raised |-> FALSE, sections |-> optimized_sections]
    ELSE LET parts == Split(part1, Delimiter(k))
         IN IF Len(parts) < 2 THEN [raised |-> TRUE, sections |-> <<>>]
            ELSE SplitSectionsLenient(parts[1], k - 1, <<parts[2]>> \o optimized_sections)

\* the splits of generate, from the last section to the first: the part
\* before the delimiter is split further, the part after it is the section
RECURSIVE SplitSections(_, _, _)
SplitSections(part1, k, optimized_sections) ==
    IF k = 0 THEN [raised |-> FALSE, sections |-> optimized_sections]
    ELSE LET parts == Split(part1, Delimiter(k))
         IN IF Len(parts) # 2 THEN [raised |-> TRUE, sections |-> <<>>]
            ELSE SplitSections(parts[1], k - 1, <<parts[2]>> \o optimized_sections)

\* the sections read of a reply in which a delimiter may stand twice
OptimizedSectionsLenient(content) ==
    SplitSectionsLenient(Remove(content, "###"), 6, <<>>)

\* the sections generate reads of the reply: the heading marks are removed,
\* then the reply is split
OptimizedSections(content) == SplitSections(Remove(content, "###"), 6, <<>>)

\* what generate hands back: whether it raised, the sections of the report
\* it returned (name and text, in order), whether the report was saved,
\* and the calls it made to the generation service
Compiled(raised, sections, calls) ==
    [raised |-> raised, sections |-> sections, saved |-> ~raised, calls |-> calls]

\* the report built of the texts of the six sections
FinalReport(texts) == [k \in 1..Len(texts) |-> [name |-> SectionNames[k], text |-> texts[k]]]

\* ReportGenerator.generate: the three passes, the call for the narration,
\* the splits of its reply, and _save_report
ReportGenerate(replies) ==
    LET user_complaint == GenerateUserComplaint(replies.complaint)
        problem_analysis == GenerateProblemAnalysis(replies.analysis)
        solution == GenerateSolution(replies.solution)
        split == OptimizedSections(replies.final.content)
    IN IF user_complaint.raised THEN Compiled(TRUE, <<>>, <<"complaint">>)
       ELSE IF problem_analysis.raised
       THEN Compiled(TRUE, <<>>, <<"complaint", "analysis">>)
       ELSE IF solution.raised
       THEN Compiled(TRUE, <<>>, <<"complaint", "analysis", "solution">>)
       ELSE IF ~replies.final.ok \/ split.raised
       THEN Compiled(TRUE, <<>>, <<"complaint", "analysis", "solution", "final">>)
       ELSE Compiled(FALSE, FinalReport(split.sections),
                     <<"complaint", "analysis", "solution", "final">>)

\* what the generation service answers in a pass: the call raises (ok is
\* FALSE), or the content is a text
Answer(content) == [ok |-> TRUE, content |-> content]
NoAnswer == [ok |-> FALSE, content |-> <<>>]

\* two headers, each followed by a bullet line
Bulleted(first, second, bullet) ==
    first \o <<"colon", "\n", bullet, " ", "hao", "\n">> \o
    second \o <<"colon", "\n", " ", bullet, "hao">>

ComplaintAnswers ==
    {NoAnswer, Answer(<<>>), Answer(<<"hao">>),
     Answer(<<"zhuyaowenti", "colon", "\n", "-", "hao">>),
     Answer(<<"-", "hao", "\n", "zhuyaowenti", "colon", "\n", "suqiu", "colon", "\n", "-", "hao">>),
     Answer(<<"zhuyaowenti", "colon", "\n", "-", " ", "\n", "suqiu", "colon", "\n", "-", "hao">>)} \cup
    {Answer(Bulleted(first, second, bullet)) :
        first \in {<<"zhuyaowenti">>, <<"yonghuzhusu">>},
        second \in {<<"suqiu">>, <<"yonghuwentiyu", "suqiu">>},
        bullet \in {"-", "*", "hao"}}

AnalysisAnswers ==
    {NoAnswer, Answer(<<>>), Answer(<<"hao">>),
     Answer(<<"wentixingzhi", "colon", "\n", "-", "hao">>)} \cup
    {Answer(Bulleted(<<"wentixingzhi">>, <<"zhuanyejieshi">>, bullet)) :
        bullet \in {"-", "*", "hao"}}

SolutionAnswers ==
    {NoAnswer, Answer(<<>>), Answer(<<"hao">>),
     Answer(<<"jianyicuoshi", "colon", "\n", "-", "hao">>),
     Answer(<<"zongjie", "colon", "\n", "hao">>),
     Answer(<<"jianyicuoshi", "colon", "\n", "-", "hao", "\n",
              "zongjie", "colon", "\n", "hao", "\n", "-", "hao">>)} \cup
    {Answer(Bulleted(<<"jianyicuoshi">>, <<"zongjie">>, bullet)) :
        bullet \in {"-", "*", "hao"}}

\* answers that every pass accepts
GoodAnswers ==
    [complaint |-> Answer(Bulleted(<<"zhuyaowenti">>, <<"suqiu">>, "-")),
     analysis |-> Answer(Bulleted(<<"wentixingzhi">>, <<"zhuanyejieshi">>, "-")),
     solution |-> Answer(Bulleted(<<"jianyicuoshi">>, <<"zongjie">>, "-")),
     final |-> NoAnswer]

\* the headings of a narration, as the numbers of their sections: the six
\* in order, the six without one, with two neighbours exchanged, and with
\* one more heading put somewhere
Headings ==
    LET six == <<1, 2, 3, 4, 5, 6>>
    IN {six} \cup
       {SelectSeq(six, LAMBDA k : k # j) : j \in 1..6} \cup
       {[k \in 1..6 |-> IF k = j THEN j + 1 ELSE IF k = j + 1 THEN j ELSE k] : j \in 1..5} \cup
       {SubSeq(six, 1, at) \o <<j>> \o SubSeq(six, at + 1, 6) :
           j \in 1..6, at \in 0..6}

\* a narration: before each heading a mark, after it a colon and a text
RECURSIVE Narration(_, _, _)
Narration(headings, mark, text) ==
    IF headings = <<>> THEN <<>>
    ELSE mark \o SectionNames[Head(headings)] \o text \o
         Narration(Tail(headings), mark, text)

NarrationAnswers ==
    {NoAnswer, Answer(<<>>), Answer(<<"hao">>)} \cup
    {Answer(Narration(h, mark, text)) :
        h \in Headings,
        mark \in {<<"###", " ">>, <<" ">>, <<"###">>},
        text \in {<<"colon", "\n", "hao", "\n">>, <<>>}}

\* a report that nothing has compiled yet
ReportCall(op, replies) ==
    [op |-> op, replies |-> replies, raised |-> FALSE, sections |-> <<>>,
     saved |-> FALSE, calls |-> <<>>, buckets |-> <<<<>>, <<>>>>]

InitReport ==
    /\ active_sessions = <<>>
    /\ sessions = <<>>
    /\ nsteps = 0
    /\ last = Outcome("none", 0, NoId, FALSE, NoTurn)
    /\ threads = [t \in ThreadIds |-> IdleThread]
    /\ gate = NoGate
    /\ stagecall \in
          {ReportCall("to_generate", [GoodAnswers EXCEPT !.final = f]) :
              f \in NarrationAnswers} \cup
          {ReportCall("to_generate", [GoodAnswers EXCEPT !.complaint = c,
                                                        !.final = Answer(Narration(<<1, 2, 3, 4, 5, 6>>, <<" ">>, <<"hao">>))]) :
              c \in ComplaintAnswers} \cup
          {ReportCall("to_generate", [GoodAnswers EXCEPT !.analysis = a,
                                                        !.final = Answer(Narration(<<1, 2, 3, 4, 5, 6>>, <<" ">>, <<"hao">>))]) :
              a \in AnalysisAnswers} \cup
          {ReportCall("to_generate", [GoodAnswers EXCEPT !.solution = s,
                                                        !.final = Answer(Narration(<<1, 2, 3, 4, 5, 6>>, <<" ">>, <<"hao">>))]) :
              s \in SolutionAnswers} \cup
          {ReportCall("to_complain", [GoodAnswers EXCEPT !.complaint = c]) :
              c \in ComplaintAnswers} \cup
          {ReportCall("to_analyse", [GoodAnswers EXCEPT !.analysis = a]) :
              a \in AnalysisAnswers} \cup
          {ReportCall("to_solve", [GoodAnswers EXCEPT !.solution = s]) :
              s \in SolutionAnswers}

\* the record of a pass that was called
Passed(after, scanned) ==
    [stagecall EXCEPT !.op = after, !.raised = scanned.raised,
                      !.buckets = scanned.sections, !.calls = <<after>>]

\* report_generator.generate_user_complaint(consultation_text)
UserComplaintCall ==
    /\ stagecall.op = "to_complain"
    /\ stagecall' = Passed("complaint", GenerateUserComplaint(stagecall.replies.complaint))
    /\ UNCHANGED <<active_sessions, sessions, nsteps, last, threads, gate>>

\* report_generator.generate_problem_analysis(consultation_text)
ProblemAnalysisCall ==
    /\ stagecall.op = "to_analyse"
    /\ stagecall' = Passed("analysis", GenerateProblemAnalysis(stagecall.replies.analysis))
    /\ UNCHANGED <<active_sessions, sessions, nsteps, last, threads, gate>>

\* report_generator.generate_solution(consultation_text)
SolutionCall ==
    /\ stagecall.op = "to_solve"
    /\ stagecall' = Passed("solution", GenerateSolution(stagecall.replies.solution))
    /\ UNCHANGED <<active_sessions, sessions, nsteps, last, threads, gate>>

\* report_generator.generate(session_id, session_history)
ReportGenerateCall ==
    /\ stagecall.op = "to_generate"
    /\ LET c == ReportGenerate(stagecall.replies)
       IN stagecall' = [stagecall EXCEPT !.op = "generate", !.raised = c.raised,
                                         !.sections = c.sections,
                                         !.saved = c.saved, !.calls = c.calls]
    /\ UNCHANGED <<active_sessions, sessions, nsteps, last, threads, gate>>

NextReport == UserComplaintCall \/ ProblemAnalysisCall \/ SolutionCall \/ ReportGenerateCall

SpecReport == InitReport /\ [][NextReport]_vars

----------------------------------------------------------------------------
(* modules/problem_analyzer.py: the Problem Analyzer.                      *)

\* the fields _validate_result asks for: of the result, and of each of its
\* four dicts, with the types it accepts (a str or None, a list)
RequiredFields ==
    <<"problem", "provided_info", "coping_history", "user_expectation", "missing_info">>

NestedFields ==
    [provided_info |->
        <<<<"age", {"str", "none"}>>, <<"occupation", {"str", "none"}>>,
          <<"duration", {"str", "none"}>>, <<"frequency", {"str", "none"}>>,
          <<"symptoms", {"list"}>>, <<"context", {"list"}>>>>,
     coping_history |->
        <<<<"attempts", {"list"}>>, <<"effectiveness", {"list"}>>,
          <<"current_status", {"list"}>>>>,
     user_expectation |->
        <<<<"solution_type", {"str", "none"}>>, <<"improvement_goal", {"str", "none"}>>,
          <<"timeline", {"str", "none"}>>>>,
     missing_info |->
        <<<<"critical", {"list"}>>, <<"optional", {"list"}>>>>]

\* ProblemAnalyzer._validate_result reading the top-level fields only
AnalysisValidateResultTopLevelOnly(result) ==
    \/ \E i \in 1..Len(RequiredFields) : ~KeyIn(K(RequiredFields[i]), result)
    \/ Item(result, K("problem")).kind # "str"
    \/ \E i \in 2..Len(RequiredFields) : Item(result, K(RequiredFields[i])).kind # "obj"

\* ProblemAnalyzer._validate_result: TRUE when it raises
AnalysisValidateResultRaises(result) ==
    \/ \E i \in 1..Len(RequiredFields) : ~KeyIn(K(RequiredFields[i]), result)
    \/ Item(result, K("problem")).kind # "str"
    \/ \E i \in 2..Len(RequiredFields) : Item(result, K(RequiredFields[i])).kind # "obj"
    \/ \E i \in 2..Len(RequiredFields) :
          LET dict == Item(result, K(RequiredFields[i]))
              fields == NestedFields[RequiredFields[i]]
          IN \E j \in 1..Len(fields) :
                \/ ~KeyIn(K(fields[j][1]), dict)
                \/ Item(dict, K(fields[j][1])).kind \notin fields[j][2]
    \/ LET solution_type == Item(Item(result, K("user_expectation")), K("solution_type"))
       IN /\ solution_type # JNone
          /\ solution_type.s \notin {K("long_term"), K("immediate")}

\* str.find and str.rfind of a character: the first and the last position
\* it stands at, 0 when it does not stand in the text
Find(text, char) ==
    IF \A i \in 1..Len(text) : text[i] # char THEN 0
    ELSE CHOOSE i \in 1..Len(text) : text[i] = char /\ \A j \in 1..(i - 1) : text[j] # char

RFind(text, char) ==
    IF \A i \in 1..Len(text) : text[i] # char THEN 0
    ELSE CHOOSE i \in 1..Len(text) : text[i] = char /\ \A j \in (i + 1)..Len(text) : text[j] # char

\* ProblemAnalyzer.analyze: the reply is cut from its first opening brace
\* to its last closing brace, parsed and validated
ProblemAnalyze(reply) ==
    LET content == reply.content
        start == Find(content, "{")
        end == RFind(content, "}")
        result == Loads(SubSeq(content, start, end))
        called == <<"problem_analyzer">>
    IN IF ~reply.ok \/ content = <<>> THEN Analyzed(TRUE, JNone, called)
       ELSE IF start = 0 \/ end = 0 THEN Analyzed(TRUE, JNone, called)
       ELSE IF ~result.ok THEN Analyzed(TRUE, JNone, called)
       ELSE IF AnalysisValidateResultRaises(result.value) THEN Analyzed(TRUE, JNone, called)
       ELSE Analyzed(FALSE, result.value, called)

\* the values a field of a reply can hold
FieldValues ==
    {JStr(K("age")), JNone, JList(<<>>), JList(<<JStr(K("age"))>>), JNum("1"),
     JObj(<<>>)}

\* an analysis with every field, and of the expected solution the given type
WholeAnalysis(solution_type) ==
    Dict(<<<<"problem", JStr(K("problem"))>>,
           <<"provided_info",
             Dict(<<<<"age", JStr(K("age"))>>, <<"occupation", JNone>>,
                    <<"duration", JStr(K("duration"))>>, <<"frequency", JNone>>,
                    <<"symptoms", JList(<<JStr(K("symptoms"))>>)>>,
                    <<"context", JList(<<>>)>>>>)>>,
           <<"coping_history",
             Dict(<<<<"attempts", JList(<<>>)>>, <<"effectiveness", JList(<<>>)>>,
                    <<"current_status", JList(<<>>)>>>>)>>,
           <<"user_expectation",
             Dict(<<<<"solution_type", solution_type>>,
                    <<"improvement_goal", JNone>>,
                    <<"timeline", JStr(K("timeline"))>>>>)>>,
           <<"missing_info",
             Dict(<<<<"critical", JList(<<JStr(K("duration"))>>)>>,
                    <<"optional", JList(<<>>)>>>>)>>>>)

\* the analyses of the replies: whole ones, and ones in which a field is
\* missing or holds another value
AnalysisResults ==
    LET whole == WholeAnalysis(JStr(K("long_term")))
        nested == UNION {{<<RequiredFields[i], NestedFields[RequiredFields[i]][j][1]>> :
                             j \in 1..Len(NestedFields[RequiredFields[i]])} :
                         i \in 2..Len(RequiredFields)}
    IN {WholeAnalysis(t) : t \in {JStr(K("long_term")), JStr(K("immediate")), JNone,
                                  JStr(K("someday")), JStr(<<>>), JNum("1")}} \cup
       {Without(whole, RequiredFields[i]) : i \in 1..Len(RequiredFields)} \cup
       {With(whole, RequiredFields[i], v) : i \in 1..Len(RequiredFields), v \in FieldValues} \cup
       {With(whole, f[1], Without(Item(whole, K(f[1])), f[2])) : f \in nested} \cup
       {With(whole, f[1], With(Item(whole, K(f[1])), f[2], v)) : f \in nested, v \in FieldValues}

\* the replies that hold a text: alone, in a fence, and among words
Framed(text) ==
    {Wrap(f, text) : f \in ReplyForms} \cup
    {<<"good", ":", "\n">> \o text \o <<"\n", "good">>}

\* what the generation service answers to the analysis prompt: the call
\* raises (ok is FALSE), or the content is a text: an analysis, alone, in a
\* fence, or among words and braces, or a text that holds none
AnalysisReplyTexts ==
    {NoAnswer, Answer(<<>>), Answer(<<"good">>), Answer(<<"}", " ", "{">>),
     Answer(<<"{">>), Answer(<<"}">>)} \cup
    {Answer(t) : t \in UNION {Framed(JsonText(r)) : r \in AnalysisResults}} \cup
    {Answer(JsonText(r) \o <<" ", "}">>) : r \in AnalysisResults} \cup
    {Answer(<<"{", "}", " ">> \o JsonText(r)) : r \in AnalysisResults}

\* a reply that nothing has read yet
AnalysisCall(op, reply) ==
    [op |-> op, reply |-> reply, raised |-> FALSE, value |-> JNone, calls |-> <<>>]

InitAnalysis ==
    /\ active_sessions = <<>>
    /\ sessions = <<>>
    /\ nsteps = 0
    /\ last = Outcome("none", 0, NoId, FALSE, NoTurn)
    /\ threads = [t \in ThreadIds |-> IdleThread]
    /\ gate = NoGate
    /\ stagecall \in {AnalysisCall("to_analyze", r) : r \in AnalysisReplyTexts}

\* problem_analyzer.analyze(messages)
ProblemAnalyzeCall ==
    /\ stagecall.op = "to_analyze"
    /\ LET a == ProblemAnalyze(stagecall.reply)
       IN stagecall' = [stagecall EXCEPT !.op = "analyze", !.raised = a.raised,
                                         !.value = a.value, !.calls = a.calls]
    /\ UNCHANGED <<active_sessions, sessions, nsteps, last, threads, gate>>

NextAnalysis == ProblemAnalyzeCall

SpecAnalysis == InitAnalysis /\ [][NextAnalysis]_vars

----------------------------------------------------------------------------
(* The requests of the server under fair scheduling.  A request is served  *)
(* by a thread of the WSGI server, and a thread that has come to a write   *)
(* of the session's state (session['state'] = ..., a plain dict store) is  *)
(* not held back for ever.  Nothing else is assumed: not that a stage call *)
(* returns, nor what it returns, nor which requests arrive.  The runs      *)
(* start from session 1 after up to MaxTurns turns and take one request,   *)
(* or from session 1 waiting for feedback on a stored solution and take    *)
(* two requests, which may overlap.                                        *)

\* a session waits for feedback on a solution it has stored
AwaitsFeedback(session) ==
    /\ Get(session, "state", "INITIAL") = "FEEDBACK"
    /\ Truthy(Get(session, "solution", ""))

\* thread t writes the state of its session: _handle_feedback, line 410,
\* or _update_session_state, lines 211-212
WritesState(t) == ChatEnded(t) \/ ChatState(t)

\* the start of two requests: the session that got its solution in its
\* second turn, after questions about critical information
InitLive ==
    \/ InitTurns
    \/ \E s \in {x \in After(MaxTurnsAhead) :
                    /\ x.smooth
                    /\ AwaitsFeedback(x.store[1])
                    /\ x.store[1].analysis_result.missing_info.critical # <<>>} :
          Starts(s, 2)

SpecLive ==
    /\ InitLive
    /\ [][Next]_vars
    /\ \A t \in ThreadIds : WF_vars(WritesState(t))

----------------------------------------------------------------------------
(* Properties *)

\* the last request answered was a chat request that reached process_input
Turn ==
    /\ last.op = "chat"
    /\ last.status \in {200, 500}
    /\ last.pre_state # NoneStr

\* the last request was a turn that returned a reply
Replied == last.op = "chat" /\ last.status = 200

\* the state stored for the session of the last turn, after the turn
PostState == sessions[last.sid].state

InCalls(stage) == \E i \in 1..Len(last.calls) : last.calls[i] = stage

\* the last turn was dispatched in FEEDBACK with a non-empty stored solution
\* and the Feedback Classifier returned a classification
ClassifiedTurn ==
    /\ Turn
    /\ last.pre_state = "FEEDBACK"
    /\ Get(last.pre_session, "solution", "") # ""
    /\ last.out.feedback.ok

\* C1: a turn in FEEDBACK with a stored solution and a classified feedback
\* type ends in ENDED for LOST_CONFIDENCE, in SOLUTION_GENERATION with the
\* classifier's reply extended by the request for specifics for NEGATIVE and
\* UNCERTAIN, and in COMPLETED (never REPORT_GENERATION) for POSITIVE and
\* NEED_TIME; the reply carries the same state.
C1_FeedbackTransitions ==
    ClassifiedTurn =>
        LET t == last.out.feedback.type
            r == last.out.feedback.response
        IN /\ Replied
           /\ last.resp.state = DialogueState[PostState]
           /\ t = "LOST_CONFIDENCE" =>
                 PostState = "ENDED" /\ last.resp.response = r
           /\ t \in {"NEGATIVE", "UNCERTAIN"} =>
                 /\ PostState = "SOLUTION_GENERATION"
                 /\ last.resp.response = r \o AskSpecifics
           /\ t \in {"POSITIVE", "NEED_TIME"} => PostState = "COMPLETED"

C1_Witness ==
    /\ ClassifiedTurn
    /\ last.out.feedback.type = "UNCERTAIN"
    /\ PostState = "SOLUTION_GENERATION"
    /\ last.resp.response = "r1" \o AskSpecifics

\* the last turn was dispatched in INITIAL or PROBLEM_ANALYSIS and its
\* analysis succeeded
AnalysedTurn ==
    /\ Turn
    /\ last.pre_state \in {"INITIAL", "PROBLEM_ANALYSIS"}
    /\ last.out.analysis.ok

\* the analysis result of the last turn lists something as missing
SomeMissing ==
    LET m == last.out.analysis.result.missing_info
    IN m.critical # <<>> \/ m.optional # <<>>

\* C2 as stated: after a successful analysis in INITIAL or PROBLEM_ANALYSIS,
\* with something missing the reply is the generated questions and the next
\* state is SOLUTION_GENERATION; with nothing missing Solution Generation is
\* called and the next state is FEEDBACK.
C2_AnalysisRouting_AsStated ==
    AnalysedTurn =>
        IF SomeMissing
        THEN /\ last.out.questions.ok
             /\ last.resp.response = last.out.questions.text
             /\ PostState = "SOLUTION_GENERATION"
        ELSE /\ InCalls("solution_generator")
             /\ PostState = "FEEDBACK"

\* C2 amended: after a successful analysis in INITIAL or PROBLEM_ANALYSIS,
\* with something missing the Question Generator is called, and when it
\* returns the reply is its questions and the next state is
\* SOLUTION_GENERATION, while when it raises the reply is an apology and the
\* next state is QUESTIONNAIRE; with nothing missing the Solution Generator
\* is called in the same turn, and when it returns the reply is the solution
\* and the next state is FEEDBACK, while when it raises the next state is
\* SOLUTION_GENERATION.
C2_AnalysisRouting ==
    AnalysedTurn =>
        /\ Replied
        /\ IF SomeMissing
           THEN /\ last.calls = <<"problem_analyzer", "question_generator">>
                /\ IF last.out.questions.ok
                   THEN /\ last.resp.response = last.out.questions.text
                        /\ PostState = "SOLUTION_GENERATION"
                   ELSE /\ last.resp.response \in
                              {MsgQuestionValueError, MsgQuestionError}
                        /\ PostState = "QUESTIONNAIRE"
           ELSE /\ last.calls = <<"problem_analyzer", "solution_generator">>
                /\ IF last.out.solution.ok
                   THEN /\ last.resp.response = last.out.solution.content
                        /\ PostState = "FEEDBACK"
                   ELSE /\ last.resp.response = MsgSolutionFailed
                        /\ PostState = "SOLUTION_GENERATION"

C2_Witness ==
    /\ AnalysedTurn
    /\ last.pre_state = "PROBLEM_ANALYSIS"
    /\ last.out.analysis.result.missing_info.critical = <<>>
    /\ last.out.analysis.result.missing_info.optional # <<>>
    /\ last.out.questions.ok
    /\ PostState = "SOLUTION_GENERATION"

Terminal == {"COMPLETED", "ENDED"}

\* thread t takes a step of its request
Moves(t) == threads'[t].pc # threads[t].pc \/ threads'[t].seen # threads[t].seen

\* C3 as stated: once the state stored for a session is COMPLETED or
\* ENDED, no step of a chat request on that session changes it.
C3_TerminalStates ==
    [][\A sid \in DOMAIN sessions : \A t \in ThreadIds :
          (sessions[sid].state \in Terminal
             /\ threads[t].op = "chat" /\ threads[t].sid = sid /\ Moves(t)) =>
             /\ sid \in DOMAIN sessions'
             /\ sessions'[sid].state = sessions[sid].state]_vars

\* C4 as stated: every turn that reaches process_input gets a reply; none
\* ends with an exception leaving process_input.
C4_AlwaysReplies == Turn => (Replied /\ ~last.raised)

\* a stage raised during the last turn
FailedTurn == Turn /\ last.failed # NoneStr

\* C5 as stated: when a stage raises, the state after the turn is the state
\* before it, except PROBLEM_ANALYSIS after a Problem Analyzer failure.
C5_FailureKeepsState_AsStated ==
    FailedTurn =>
        PostState = IF last.failed = "problem_analyzer"
                    THEN "PROBLEM_ANALYSIS"
                    ELSE last.pre_state

C7_SolutionStored ==
    (Replied /\ PostState = "FEEDBACK" /\ "solution" \in last.resp.keys) =>
        /\ "solution" \in sessions[last.sid].keys
        /\ sessions[last.sid].solution = last.resp.response

\* C8 as stated: a feedback turn classified POSITIVE or NEED_TIME that moves
\* the session to COMPLETED has run the Report Compiler during the turn.
C8_ReportCompiled ==
    (/\ ClassifiedTurn
     /\ last.out.feedback.type \in {"POSITIVE", "NEED_TIME"}
     /\ PostState = "COMPLETED") => InCalls("report_generator")

Gates == {"privacy_checker", "scope_validator"}

\* C9 as stated: the first turn of a session calls the privacy gate before
\* anything else, and a later turn calls no gate.
C9_FirstTurnGated ==
    Turn =>
        IF last.pre_session.history = <<>>
        THEN last.calls # <<>> /\ last.calls[1] = "privacy_checker"
        ELSE \A i \in 1..Len(last.calls) : last.calls[i] \notin Gates

\* C10: a turn whose analysis result lists nothing as missing, neither
\* critical nor optional, does not call the Question Generator.
C10_NoQuestionsWhenComplete ==
    (AnalysedTurn /\ ~SomeMissing) => ~InCalls("question_generator")

C10_Witness ==
    /\ AnalysedTurn
    /\ ~SomeMissing
    /\ InCalls("problem_analyzer")
    /\ InCalls("solution_generator")

\* the last turn was dispatched in QUESTIONNAIRE or SOLUTION_GENERATION
AnswerTurn == Turn /\ last.pre_state \in {"QUESTIONNAIRE", "SOLUTION_GENERATION"}

\* C11: a turn arriving in QUESTIONNAIRE or SOLUTION_GENERATION calls the
\* Solution Generator and no other stage, returns no analysis result to be
\* stored, and when the generator returns the reply is the solution and the
\* next state is FEEDBACK.
C11_AnswerGoesToSolution ==
    AnswerTurn =>
        /\ Replied
        /\ last.calls = <<"solution_generator">>
        /\ "analysis_result" \notin last.resp.keys
        /\ last.out.solution.ok =>
              /\ PostState = "FEEDBACK"
              /\ last.resp.state = DialogueState.FEEDBACK
              /\ last.resp.response = last.out.solution.content

C11_Witness ==
    /\ AnswerTurn
    /\ last.pre_state = "QUESTIONNAIRE"
    /\ last.out.solution.ok
    /\ last.pre_session.analysis_result.missing_info.critical = <<"duration">>
    /\ PostState = "FEEDBACK"

\* C12 as stated: when a stage raises during a turn, the session's stored
\* analysis_result, solution and feedback record are the same after the turn
\* as before it.
C12_NoPartialCommit ==
    FailedTurn =>
        LET after == sessions[last.sid]
            before == last.pre_session
        IN /\ after.analysis_result = before.analysis_result
           /\ ("solution" \in after.keys) = ("solution" \in before.keys)
           /\ after.solution = before.solution
           /\ ("feedback" \in after.keys) = ("feedback" \in before.keys)
           /\ after.feedback = before.feedback

\* C13: a chat request with a message and with no session_id, or with one
\* that is not in the session table, creates exactly one session under an
\* id never used before, in the table and then in the Orchestrator's store,
\* dispatches the message in it from INITIAL and answers with that id; a
\* request naming a session in the table is processed in that session and
\* creates none.
C13_SessionCreation ==
    [][\A t \in ThreadIds :
          LET me == threads[t]
              now == threads'[t]
          IN /\ (me.pc = "chat_check" /\ now.pc = "chat_touch") =>
                   IF Known(active_sessions, me.client)
                   THEN /\ now.sid = me.client
                        /\ ~now.created
                        /\ active_sessions' = active_sessions
                   ELSE /\ now.created
                        /\ now.sid \notin DOMAIN sessions \cup
                               DOMAIN active_sessions \cup {NoId}
                        /\ \A o \in ThreadIds : threads[o].sid # now.sid
                        /\ DOMAIN active_sessions' =
                               DOMAIN active_sessions \cup {now.sid}
                        /\ active_sessions'[now.sid] = NewFrontSession
                        /\ \A o \in DOMAIN active_sessions :
                              active_sessions'[o] = active_sessions[o]
             /\ (me.pc = "chat_session" /\ Moves(t)) =>
                   now.pc = IF me.created THEN "chat_create" ELSE "chat_get"
             /\ (me.pc = "chat_create" /\ Moves(t)) =>
                   /\ me.created
                   /\ me.sid \notin DOMAIN sessions
                   /\ DOMAIN sessions' = DOMAIN sessions \cup {me.sid}
                   /\ sessions'[me.sid].state = "INITIAL"
                   /\ sessions'[me.sid].history = <<>>
                   /\ \A o \in DOMAIN sessions : sessions'[o] = sessions[o]
             /\ (me.pc = "chat_dispatch" /\ Moves(t) /\ me.created) =>
                   now.state = "INITIAL"
             /\ (me.op = "chat" /\ Moves(t) /\ me.pc # "chat_check") =>
                   DOMAIN active_sessions' \subseteq DOMAIN active_sessions
             /\ (me.op = "chat" /\ Moves(t) /\ me.pc # "chat_create") =>
                   DOMAIN sessions' = DOMAIN sessions
             /\ (me.pc = "chat_front" /\ now.pc = "idle") =>
                   /\ last'.op = "chat" /\ last'.status = 200
                   /\ last'.sid = me.sid
                   /\ last'.created = me.created
                   /\ me.created =>
                         /\ last'.pre_state = "INITIAL"
                         /\ last'.pre_session.history = <<>>
                         /\ sessions[me.sid].history[1].response =
                               last'.resp.response]_vars

\* a request that created a session is answered while another request,
\* which created a session of its own, is between its writes
C13_Witness ==
    /\ Replied
    /\ last.created
    /\ Len(sessions[last.sid].history) = 1
    /\ \E t \in ThreadIds :
          /\ threads[t].created
          /\ threads[t].sid # last.sid
          /\ threads[t].sid \in DOMAIN sessions
          /\ threads[t].pc = "chat_history"

\* C14 as stated: after end_session has answered 200 for a session, neither
\* the front-end table nor the Orchestrator's store has an entry for it.
C14_EndDiscards ==
    (last.op = "end_session" /\ last.status = 200) =>
        /\ last.sid \notin DOMAIN active_sessions
        /\ last.sid \notin DOMAIN sessions

\* what the table holds for the session of thread t after the step is what
\* the request found there
StillThere(t) ==
    LET me == threads[t]
    IN /\ me.sid \in DOMAIN active_sessions'
       /\ active_sessions'[me.sid].state = me.found.state
       /\ active_sessions'[me.sid].messages = me.found.messages

\* C15 as stated: when generate_report answers, with the report or with
\* the failure of the generator, the session is in the table with the
\* state and the messages the request found.
C15_ReportKeepsSession_AsStated ==
    [][\A t \in ThreadIds :
          (threads[t].pc = "report_wait" /\ Moves(t)) => StillThere(t)]_vars

\* C15 amended: no step of generate_report after its expiry sweep writes
\* anything, in the table or in the Orchestrator's store; when no other
\* request has been in flight on the session since generate_report found
\* it and no sweep has dropped it, the session is in the table with the
\* same state and messages when generate_report answers, with the report
\* or with the failure of the generator; and a chat request that names a
\* session in the table is processed in that session.
C15_ReportKeepsSession ==
    [][\A t \in ThreadIds :
          LET me == threads[t]
              now == threads'[t]
          IN /\ (me.op = "generate_report" /\ Moves(t)
                   /\ me.pc \notin {"sweep", "sweep_del"}) =>
                   /\ active_sessions' = active_sessions
                   /\ sessions' = sessions
             /\ (me.pc = "report_wait" /\ Moves(t)) =>
                   /\ last'.op = "generate_report"
                   /\ last'.status \in {200, 500}
                   /\ last'.status = 500 <=> last'.failed = "report_generator"
                   /\ last'.sid = me.sid
                   /\ me.alone => StillThere(t)
             /\ (me.pc = "chat_check" /\ Moves(t) /\ me.message # NoMessage
                   /\ Known(active_sessions, me.client)) =>
                   /\ now.sid = me.client
                   /\ ~now.created
                   /\ now.pc = "chat_touch"]_vars

\* generate_report failed on a session of one answered turn while a
\* request on another session was in flight, and the table still holds the
\* session as it was
C15_Witness ==
    /\ last.op = "generate_report"
    /\ last.status = 500
    /\ last.sid \in DOMAIN active_sessions
    /\ Len(active_sessions[last.sid].messages) = 2
    /\ sessions[last.sid].state = "SOLUTION_GENERATION"
    /\ \E t \in ThreadIds :
          threads[t].pc = "chat_history" /\ threads[t].sid # last.sid

\* the question holds one of the name patterns: surname and given name,
\* surname and title, U+5C0F and given name, U+8001 or U+5C0F and surname
HoldsNamePattern(q) ==
    \/ \E name \in {<<"Zhang", "ming">>, <<"Zhang", "san">>, <<"Li", "si">>,
                     <<"Ren", "ming">>, <<"Jin", "ming">>, <<"Xu", "ming">>,
                     <<"Xu_2", "san">>} : Contains(q, name)
    \/ \E titled \in {<<"Zhang", "lao", "shi">>, <<"Ren", "lao", "shi">>,
                       <<"Li", "zhu", "Ren">>, <<"Gong", "jiao", "shou">>} :
          Contains(q, titled)
    \/ \E given \in {<<"xiao", "ming">>, <<"xiao", "hong">>} : Contains(q, given)
    \/ \E called \in {<<"lao", "Zhang">>, <<"xiao", "Zhang">>, <<"lao", "Ren">>,
                       <<"xiao", "Ren">>, <<"lao", "Shi_3">>, <<"xiao", "Xiao">>} :
          Contains(q, called)

\* C19: for a question in which the name matcher finds a match, and so for
\* every question that holds one of the four name patterns, check_privacy
\* returns is_safe false, has_real_names true, risk_level high and
\* rejection_required true, raises nothing and calls the generation service
\* not once, whatever the service would have answered.
C19_NameMatchRejects ==
    (gate.op = "check_privacy" /\
     (ContainsRealName(gate.question) \/ HoldsNamePattern(gate.question))) =>
        /\ ~gate.raised
        /\ ~gate.privacy.is_safe
        /\ gate.privacy.has_real_names
        /\ gate.privacy.risk_level = "high"
        /\ gate.privacy.rejection_required
        /\ gate.calls = <<>>

C19_Witness ==
    /\ gate.op = "check_privacy"
    /\ gate.question = <<"Ren", "lao", "shi">>
    /\ gate.privacy_reply.ok
    /\ gate.privacy_reply.is_safe
    /\ ~gate.privacy.is_safe
    /\ gate.privacy.has_real_names
    /\ gate.calls = <<>>

\* C20 as stated: when the privacy check reports the question safe and the
\* scope validator judges it valid for the role, validate_question returns
\* is_valid true with a topic and no error message.
C20_ValidWhenSafeAndInScope ==
    LET privacy == CheckPrivacy(gate.question, gate.privacy_reply)
        scope == ScopeValidateQuestion(gate.question, gate.role, gate.scope_reply)
    IN (/\ gate.op = "validate_question"
        /\ ~privacy.raised /\ privacy.value.is_safe
        /\ ~scope.raised /\ scope.value.is_valid) =>
           /\ gate.validation.is_valid
           /\ gate.validation.topic # NoneStr
           /\ gate.validation.error_message = NoneStr

\* the turns in flight on a session: the threads between process_input's
\* read of the session and the last write of _update_session_state
InFlight(sid) ==
    {t \in ThreadIds :
        /\ threads[t].sid = sid
        /\ threads[t].pc \in {"chat_read", "chat_stage", "chat_reply",
                              "chat_reply_solution", "chat_ended",
                              "chat_state", "chat_history",
                              "chat_analysis"}}

\* C16 as stated: no session has two turns in flight.
C16_OneTurnInFlight ==
    \A sid \in DOMAIN sessions : Cardinality(InFlight(sid)) <= 1

\* C17 as stated: no request that found its session_id in the table ends
\* with the KeyError of an entry removed between its membership test and
\* its access, and no sweep ends with the error of a table that was changed
\* under its loop or under its list of expired ids.
C17_FoundThenAccessed ==
    /\ ~(last.error = "KeyError" /\ ~last.created)
    /\ last.error \notin {"RuntimeError:size", "RuntimeError:keys",
                          "KeyError:del"}

\* the session a step of thread t works on
Worked(t) == IF threads[t].sid = NoId THEN threads'[t].sid ELSE threads[t].sid

\* what process_input and the three writes of chat leave of a session when
\* the turn of thread t is served in a store that holds that session alone
ServedAlone(t) ==
    LET me == threads[t]
        store == IF me.created THEN <<>> ELSE (me.sid :> me.turn.pre_session)
    IN ProcessInput(store, me.message, me.sid, me.turn.out)

\* C18: a step of a request on one session changes no other session's
\* entry, neither in the Orchestrator's store nor in the front-end table
\* (the expiry sweep may drop an entry it found idle); and a turn on a
\* session on which no other request has been in flight meanwhile,
\* whatever the requests on other sessions do, leaves the session's
\* state, history, analysis_result and solution, and answers, as
\* process_input does in a store that holds that session alone.
C18_SessionsIndependent ==
    [][\A t \in ThreadIds :
          LET me == threads[t]
          IN /\ Moves(t) =>
                /\ \A o \in DOMAIN sessions \ {Worked(t)} :
                      /\ o \in DOMAIN sessions'
                      /\ sessions'[o] = sessions[o]
                /\ \A o \in DOMAIN active_sessions \ {Worked(t)} :
                      IF o \in DOMAIN active_sessions'
                      THEN active_sessions'[o] = active_sessions[o]
                      ELSE me.pc = "sweep_del" /\ o \in me.expired
             /\ (me.pc = "chat_front" /\ Moves(t) /\ me.alone) =>
                   LET alone == ServedAlone(t)
                   IN /\ ~alone.raised
                      /\ sessions'[me.sid] = alone.store[me.sid]
                      /\ last'.resp = alone.resp
                      /\ me.sid \in DOMAIN active_sessions'
                      /\ active_sessions'[me.sid].messages =
                            me.found.messages \o
                               <<[role |-> "user", content |-> me.message],
                                 [role |-> "assistant",
                                  content |-> Get(alone.resp, "response", "")]>>
                      /\ active_sessions'[me.sid].state =
                            Get(alone.resp, "state", me.found.state)]_vars

\* a turn of a session that existed is answered, no other request having
\* been in flight on that session, while a turn that created another
\* session is between its writes
C18_Witness ==
    /\ last.op = "chat"
    /\ last.status = 200
    /\ ~last.created
    /\ Len(sessions[last.sid].history) = 2
    /\ \E t \in ThreadIds :
          /\ threads[t].created
          /\ threads[t].sid # last.sid
          /\ threads[t].pc = "chat_history"
          /\ threads[t].alone

----------------------------------------------------------------------------
(* Properties of the question gates and of the stage modules *)

\* C21: when the privacy check returns is_safe false, validate_question
\* returns is_valid false with an error message that is neither None nor
\* empty and with topic None, and the scope validator is not called (and so
\* makes no call to the generation service).
C21_UnsafeBlocks ==
    LET privacy == CheckPrivacy(gate.question, gate.privacy_reply)
    IN (/\ gate.op = "validate_question"
        /\ ~privacy.raised /\ ~privacy.value.is_safe) =>
           /\ ~gate.validation.is_valid
           /\ gate.validation.error_message \notin {NoneStr, ""}
           /\ gate.validation.topic = NoneStr
           /\ \A i \in 1..Len(gate.gates) : gate.gates[i] # "scope_validator"
           /\ \A i \in 1..Len(gate.calls) : gate.calls[i] # "scope_validator"

C21_Witness ==
    /\ gate.op = "validate_question"
    /\ gate.question = <<"tou", "teng">>
    /\ gate.privacy_reply.ok
    /\ ~gate.privacy_reply.is_safe
    /\ gate.privacy_reply.details.suggestion = "msg:suggestion"
    /\ gate.validation = Validation(FALSE, "msg:suggestion", NoneStr)
    /\ gate.gates = <<"privacy_checker">>

\* C22: every result the scope validator returns for a question it put to
\* the generation service has is_valid false (in the pair and in the dict)
\* when its confidence is below 0.8, its safety_flag is the unsafe one or
\* its problem_type is the out-of-scope one, whatever is_valid the reply
\* held; the other fields are the reply's.
C22_ScopeAdjusts ==
    (gate.op = "scope_validate" /\ ~gate.raised /\ gate.calls # <<>>) =>
        LET r == gate.scope.result
        IN /\ gate.scope.is_valid = r.is_valid
           /\ r = [gate.scope_reply.result EXCEPT !.is_valid = r.is_valid]
           /\ (\/ r.confidence < 80
               \/ r.safety_flag = "danger"
               \/ r.problem_type = "not_psychology") => ~r.is_valid

C22_Witness ==
    /\ gate.op = "scope_validate"
    /\ ~gate.raised
    /\ gate.calls = <<"scope_validator">>
    /\ gate.scope_reply.result.is_valid
    /\ gate.scope_reply.result.confidence = 50
    /\ gate.scope.result.confidence = 50
    /\ ~gate.scope.is_valid

\* the question holds one of the out-of-scope patterns: homework, medical,
\* investment, sensitive subjects, daily life
HoldsOutOfScopePattern(q) ==
    \/ ContainsThenPair(q, "xie", "zuo", {"ye", "wen"})
    \/ ContainsThen(q, "jie", {"ti"})
    \/ ContainsThen(q, "chi", {"yao"})
    \/ Contains(q, <<"tou", "teng">>)
    \/ Contains(q, <<"li", "cai">>)
    \/ Contains(q, <<"zheng", "zhi">>)
    \/ Contains(q, <<"tian", "qi_air">>)

\* what the scope validator returns for a question it finds a pattern in
PatternRejected ==
    /\ ~gate.raised
    /\ ~gate.scope.is_valid
    /\ ~gate.scope.result.is_valid
    /\ gate.scope.result.problem_type = "not_psychology"
    /\ gate.scope.result.reason \notin {NoneStr, ""}
    /\ gate.calls = <<>>

\* C23 as stated: for every question that holds one of the out-of-scope
\* patterns and every role, the scope validator returns is_valid false with
\* the out-of-scope problem_type and a non-empty reason, and calls the
\* generation service not once.
C23_PatternRejects_AsStated ==
    (/\ gate.op = "scope_validate"
     /\ \/ InvalidPatternReason(gate.question) # NoneStr
        \/ HoldsOutOfScopePattern(gate.question)) => PatternRejected

\* C23 amended: that holds for the questions of fewer than 1000 characters;
\* for one of 1000 characters or more the scope validator raises, pattern
\* or not, and calls the generation service not once.
C23_PatternRejects ==
    gate.op = "scope_validate" =>
        /\ (/\ Len(gate.question) < MaxQuestionChars
            /\ \/ InvalidPatternReason(gate.question) # NoneStr
               \/ HoldsOutOfScopePattern(gate.question)) => PatternRejected
        /\ Len(gate.question) >= MaxQuestionChars =>
              gate.raised /\ gate.calls = <<>>

C23_Witness ==
    /\ gate.op = "scope_validate"
    /\ gate.question = <<"xie", "ming", "zuo", "ye">>
    /\ gate.role = UserRole.TEACHER
    /\ gate.scope_reply.ok
    /\ gate.scope_reply.result.is_valid
    /\ PatternRejected
    /\ gate.scope.result.reason = "msg:homework"

\* what the routine of the stage makes of a text
ReadBy(op, content) ==
    CASE op = "privacy_checker" -> PrivacyParse(content)
      [] op = "scope_validator" -> ScopeParse(content)
      [] op = "feedback_analyzer" -> ParseLLMResponse(content)

\* C26 as stated: for a reply that is a JSON object between the fences of a
\* markdown code block, with or without the word json, the routine of each
\* stage raises nothing and returns the object it returns for the text
\* without the fences, objects nested in objects included.
C26_FenceTransparent ==
    (stagecall.op \in {"privacy_checker", "scope_validator", "feedback_analyzer"}
        /\ stagecall.form # "plain") =>
        /\ ~stagecall.raised
        /\ ~ReadBy(stagecall.op, JsonText(stagecall.object)).raised
        /\ stagecall.value = ReadBy(stagecall.op, JsonText(stagecall.object)).value

\* a feedback that is empty or only whitespace, or longer than 5000
\* characters, or holds a character of code below 32 other than line
\* feed, carriage return and tab
BadFeedback(feedback) ==
    \/ \A i \in 1..Len(feedback) : feedback[i] \in {" ", "\n"}
    \/ Len(feedback) > 5000
    \/ \E i \in 1..Len(feedback) : feedback[i] = "BEL"

\* C24 as stated: the Feedback Classifier raises, without a call to the
\* generation service, on every feedback that is empty or whitespace, longer
\* than 5000 characters or holds a control character other than line feed,
\* carriage return and tab; and a turn of a session in FEEDBACK that carries
\* such a feedback leaves the session in FEEDBACK.
C24_BadFeedbackRejected ==
    /\ (stagecall.op = "analyze" /\ BadFeedback(stagecall.feedback)) =>
          stagecall.raised /\ stagecall.calls = <<>>
    /\ (stagecall.op = "turn" /\ BadFeedback(stagecall.feedback)) =>
          /\ stagecall.calls = <<>>
          /\ stagecall.post.state = "FEEDBACK"

\* the type of the classification the reply holds, cleaned as the claim
\* says, when the classifier got as far as reading the reply
ClassifiedAs ==
    LET parsed == ParseLLMResponse(stagecall.reply.content)
    IN IF stagecall.calls = <<>> \/ ~stagecall.reply.ok \/ parsed.raised
          \/ DictGet(parsed.value, "type").kind # "str"
       THEN NoneStr
       ELSE Join(DictGet(parsed.value, "type").s)

FiveTypes == {"POSITIVE", "NEGATIVE", "UNCERTAIN", "NEED_TIME", "LOST_CONFIDENCE"}

\* C25: when the reply holds a classification whose type, cleaned, is none
\* of POSITIVE, NEGATIVE, UNCERTAIN, NEED_TIME, LOST_CONFIDENCE, analyze
\* raises, and a turn in FEEDBACK answers the fixed apology and writes
\* FEEDBACK as the state, so that the session is in FEEDBACK when no other
\* request has been in flight on it; whatever analyze returns has one of
\* the five types; and a write that brings a session to COMPLETED is a
\* write of a turn to which the classifier returned POSITIVE or NEED_TIME.
C25_UnknownTypeRaises ==
    /\ [](/\ (stagecall.op \in {"analyze", "in_turn", "turn"}
               /\ ClassifiedAs # NoneStr /\ ClassifiedAs \notin FiveTypes) =>
                 /\ stagecall.raised
                 /\ stagecall.op = "turn" =>
                       /\ stagecall.resp.response = MsgFeedbackFailed
                       /\ stagecall.resp.state = DialogueState.FEEDBACK
                       /\ stagecall.alone => stagecall.post.state = "FEEDBACK"
          /\ (stagecall.op \in {"analyze", "in_turn", "turn"}
               /\ stagecall.calls # <<>> /\ ~stagecall.raised) =>
                 /\ DictGet(stagecall.value, "type").kind = "str"
                 /\ Join(DictGet(stagecall.value, "type").s) \in FiveTypes
          /\ (stagecall.op = "turn" /\ stagecall.alone
               /\ stagecall.post.state = "COMPLETED") =>
                 /\ ~stagecall.raised
                 /\ ClassifiedAs \in {"POSITIVE", "NEED_TIME"})
    /\ [][\A sid \in DOMAIN sessions :
             (sessions'[sid].state = "COMPLETED"
                /\ sessions[sid].state # "COMPLETED") =>
                \E t \in ThreadIds :
                   /\ Moves(t)
                   /\ threads[t].sid = sid
                   /\ threads[t].state = "FEEDBACK"
                   /\ threads[t].turn.out.feedback.ok
                   /\ threads[t].turn.out.feedback.type \in
                         {"POSITIVE", "NEED_TIME"}
                   /\ (stagecall.op = "in_turn" /\ stagecall.thread = t) =>
                         ClassifiedAs \in {"POSITIVE", "NEED_TIME"}]_vars

\* a turn whose reply holds the type "need time" is answered with the
\* apology, another turn having been in flight on the session
C25_Witness ==
    /\ stagecall.op = "turn"
    /\ stagecall.feedback = <<"hao">>
    /\ "solution" \in stagecall.session.keys
    /\ stagecall.reply.content =
          Wrap("json", JsonText(Classification(JStr(<<"need", " ", "time">>))))
    /\ ClassifiedAs = "NEEDTIME"
    /\ stagecall.raised
    /\ stagecall.resp.response = MsgFeedbackFailed
    /\ ~stagecall.alone
    /\ stagecall.post.state = "FEEDBACK"

\* a question result whose format does not fit the number of its content
\* entries, or whose content and priority differ in length
BreaksFormatPolicy(result) ==
    /\ result.kind = "obj"
    /\ KeyIn(K("questions"), result)
    /\ Item(result, K("questions")).kind = "obj"
    /\ LET questions == Item(result, K("questions"))
       IN /\ \A field \in {"format", "content", "priority"} : KeyIn(K(field), questions)
          /\ Item(questions, K("content")).kind = "list"
          /\ Item(questions, K("priority")).kind = "list"
          /\ LET format == Item(questions, K("format"))
                 content == Item(questions, K("content")).members
                 priority == Item(questions, K("priority")).members
             IN \/ format = JStr(K("direct")) /\ Len(content) > 3
                \/ format = JStr(K("list")) /\ Len(content) <= 3
                \/ Len(content) # Len(priority)

\* C27: when the reply of the generation service is a question result that
\* breaks the format policy (direct with more than 3 content entries, list
\* with 3 or fewer, or content and priority of different length), generate
\* raises, and the turn that asked for the questions does not answer with
\* that result.
C27_FormatPolicyEnforced ==
    /\ stagecall.op \in {"generate", "ask"}
    /\ stagecall.calls # <<>>
    /\ stagecall.reply.ok
    /\ Loads(stagecall.reply.content).ok
    /\ BreaksFormatPolicy(Loads(stagecall.reply.content).value)
    => /\ stagecall.raised
       /\ stagecall.op = "ask" =>
             stagecall.resp.response # Join(Strip(stagecall.reply.content))

\* the positions at which sep stands in text wholly before the position
Occurrences(text, sep, before) ==
    {i \in 1..(before - Len(sep)) : At(text, sep, i)}

\* the positions of the six delimiters of a reply, found from the last one
\* to the first: the k-th delimiter stands exactly once before the
\* position of the next one (the last: before the end of the reply); the
\* empty sequence when there are no such positions
RECURSIVE Boundaries(_, _, _)
Boundaries(text, k, found) ==
    IF k = 0 THEN found
    ELSE LET at == Occurrences(text, Delimiter(k), Head(found))
         IN IF Cardinality(at) # 1 THEN <<>>
            ELSE Boundaries(text, k - 1, <<CHOOSE i \in at : TRUE>> \o found)

\* each of the six delimiters stands exactly once in the text, and they
\* stand in the order of the sections
OnceEachInOrder(text) ==
    LET at(k) == Occurrences(text, Delimiter(k), Len(text) + 1)
    IN /\ \A k \in 1..6 : Cardinality(at(k)) = 1
       /\ \A k \in 1..5 : \A i \in at(k) : \A j \in at(k + 1) : i < j

\* generate has read the reply of the narration
NarrationRead ==
    /\ stagecall.op = "generate"
    /\ Len(stagecall.calls) = 4
    /\ stagecall.replies.final.ok

\* C28 as stated: when the reply of the narration does not hold each of the
\* six section delimiters exactly once and in the order complaint,
\* requests, analysis, explanation, solution, closing, generate raises and
\* saves nothing.
C28_DelimitersOnceInOrder_AsStated ==
    NarrationRead /\ ~OnceEachInOrder(Remove(stagecall.replies.final.content, "###"))
    => stagecall.raised /\ ~stagecall.saved

\* C28: generate raises and saves nothing when a delimiter is missing from
\* the reply of the narration, when the delimiters are out of order, or
\* when a delimiter stands more than once before the next delimiter of the
\* order (the closing delimiter: anywhere in the reply); otherwise it
\* returns and saves the six sections, each being the text between its
\* delimiter and the next one, so that no section is omitted or read from
\* another part of the reply.
C28_DelimitersSplit ==
    NarrationRead =>
        LET text == Remove(stagecall.replies.final.content, "###")
            b == Boundaries(text, 6, <<Len(text) + 1>>)
        IN IF b = <<>>
           THEN stagecall.raised /\ ~stagecall.saved /\ stagecall.sections = <<>>
           ELSE /\ ~stagecall.raised
                /\ stagecall.saved
                /\ Len(stagecall.sections) = 6
                /\ \A k \in 1..6 :
                      /\ stagecall.sections[k].name = SectionNames[k]
                      /\ stagecall.sections[k].text =
                            SubSeq(text, b[k] + Len(Delimiter(k)), b[k + 1] - 1)

\* generate raised on a reply that holds every delimiter, one of them
\* twice before the next one or two of them out of order
C28_Witness ==
    /\ NarrationRead
    /\ stagecall.raised
    /\ LET text == Remove(stagecall.replies.final.content, "###")
       IN /\ \A k \in 1..6 : Occurrences(text, Delimiter(k), Len(text) + 1) # {}
          /\ Boundaries(text, 6, <<Len(text) + 1>>) = <<>>

\* C29: every report generate returns has exactly the six sections
\* complaint, requests, analysis, explanation, solution, closing, in that
\* order, and the text of each section is not empty.
C29_SixNonEmptySections ==
    stagecall.op = "generate" /\ ~stagecall.raised
    => /\ Len(stagecall.sections) = 6
       /\ \A k \in 1..6 :
             /\ stagecall.sections[k].name = SectionNames[k]
             /\ stagecall.sections[k].text # <<>>

\* the dict holds the field, and its value is of one of the kinds
Holds(dict, name, kinds) ==
    KeyIn(K(name), dict) /\ Item(dict, K(name)).kind \in kinds

\* an analysis with every declared field of the declared type
HasDeclaredFields(result) ==
    /\ result.kind = "obj"
    /\ Holds(result, "problem", {"str"})
    /\ Holds(result, "provided_info", {"obj"})
    /\ Holds(result, "coping_history", {"obj"})
    /\ Holds(result, "user_expectation", {"obj"})
    /\ Holds(result, "missing_info", {"obj"})
    /\ LET provided_info == Item(result, K("provided_info"))
           coping_history == Item(result, K("coping_history"))
           user_expectation == Item(result, K("user_expectation"))
           missing_info == Item(result, K("missing_info"))
       IN /\ \A name \in {"age", "occupation", "duration", "frequency"} :
                Holds(provided_info, name, {"str", "none"})
          /\ \A name \in {"symptoms", "context"} : Holds(provided_info, name, {"list"})
          /\ \A name \in {"attempts", "effectiveness", "current_status"} :
                Holds(coping_history, name, {"list"})
          /\ KeyIn(K("solution_type"), user_expectation)
          /\ Item(user_expectation, K("solution_type")) \in
                {JStr(K("long_term")), JStr(K("immediate")), JNone}
          /\ \A name \in {"improvement_goal", "timeline"} :
                Holds(user_expectation, name, {"str", "none"})
          /\ \A name \in {"critical", "optional"} : Holds(missing_info, name, {"list"})

\* the replies that hold an analysis lacking a declared field or holding a
\* value of another type in it
PartialReplies ==
    UNION {Framed(JsonText(r)) : r \in {x \in AnalysisResults : ~HasDeclaredFields(x)}}

\* C30: every analysis the Problem Analyzer returns has all the declared
\* fields with the declared types (problem a string; in provided_info age,
\* occupation, duration, frequency strings or null, symptoms and context
\* lists; in coping_history three lists; in user_expectation solution_type
\* long_term, immediate or null, improvement_goal and timeline strings or
\* null; in missing_info two lists), and a reply whose analysis lacks one
\* of them makes analyze raise.
C30_DeclaredFields ==
    stagecall.op = "analyze" =>
        /\ ~stagecall.raised => HasDeclaredFields(stagecall.value)
        /\ stagecall.reply.ok /\ stagecall.reply.content \in PartialReplies
           => stagecall.raised

\* analyze returned an analysis read out of a reply with words around it,
\* whose expected solution has no type
C30_Witness ==
    /\ stagecall.op = "analyze"
    /\ ~stagecall.raised
    /\ stagecall.reply.content # JsonText(stagecall.value)
    /\ Item(Item(stagecall.value, K("user_expectation")), K("solution_type")) = JNone

\* C31 as stated: the message list a turn hands to the Problem Analyzer is
\* the whole transcript so far, every earlier user text and every earlier
\* reply in the order they came, followed by the text of the turn; with
\* the reply of the turn after it, it is the transcript the front end
\* holds when the turn is answered.
C31_FullTranscript ==
    (/\ Replied
     /\ last.calls # <<>> /\ last.calls[1] = "problem_analyzer"
     /\ last.sid \in DOMAIN active_sessions) =>
        last.messages \o <<[role |-> "assistant",
                            content |-> last.resp.response]>> =
           active_sessions[last.sid].messages

\* the states a handler can leave a session in
StoredStates ==
    {"PROBLEM_ANALYSIS", "QUESTIONNAIRE", "SOLUTION_GENERATION", "FEEDBACK",
     "COMPLETED", "ENDED"}

\* C32: the state stored for a session that has processed at least one turn
\* is one of PROBLEM_ANALYSIS, QUESTIONNAIRE, SOLUTION_GENERATION, FEEDBACK,
\* COMPLETED and ENDED: never INITIAL again, never REPORT_GENERATION or ERROR.
C32_StoredStates ==
    \A sid \in DOMAIN sessions :
        Len(sessions[sid].history) >= 1 => sessions[sid].state \in StoredStates

\* a session that went through the report branch and then was sent one
\* more turn
C32_Witness ==
    /\ Turn
    /\ last.pre_state = "COMPLETED"
    /\ Len(sessions[last.sid].history) >= 3
    /\ sessions[last.sid].state = "COMPLETED"

\* the session is in a terminal state after the step and was not before it
BecomesTerminal(sid) ==
    /\ sid \in DOMAIN sessions'
    /\ sessions'[sid].state \in Terminal
    /\ sid \in DOMAIN sessions => sessions[sid].state \notin Terminal

\* C33: a session comes into COMPLETED or ENDED only by a write of a turn
\* dispatched in FEEDBACK that found a non-empty solution stored and to
\* which the Feedback Classifier returned POSITIVE, NEED_TIME or
\* LOST_CONFIDENCE; no turn dispatched in another state, no turn in which a
\* stage call failed and no other request moves a session into a terminal
\* state.
C33_TerminalOnlyByFeedback ==
    [][\A sid \in DOMAIN sessions' :
          BecomesTerminal(sid) =>
              \E t \in ThreadIds :
                 LET me == threads[t]
                 IN /\ Moves(t)
                    /\ me.sid = sid
                    /\ me.pc \in {"chat_ended", "chat_state"}
                    /\ me.state = "FEEDBACK"
                    /\ Get(me.snapshot, "solution", "") # ""
                    /\ me.turn.calls = <<"feedback_analyzer">>
                    /\ me.turn.out.feedback.ok
                    /\ me.turn.failed = NoneStr
                    /\ me.turn.out.feedback.type \in
                          {"POSITIVE", "NEED_TIME", "LOST_CONFIDENCE"}]_vars

\* a session ended by its third turn: questions, a solution, and feedback
\* classified as lost confidence
C33_Witness ==
    /\ ClassifiedTurn
    /\ last.out.feedback.type = "LOST_CONFIDENCE"
    /\ Len(last.pre_session.history) = 2
    /\ PostState = "ENDED"
    /\ active_sessions[last.sid].state = DialogueState.ENDED

\* C34 as stated: when end_session answers with the failure of the report
\* generator, the session is in the table with the state and the messages
\* the request found.
C34_FailedEndKeepsSession_AsStated ==
    [][\A t \in ThreadIds :
          (/\ threads[t].pc = "end_report" /\ Moves(t)
           /\ last'.failed = "report_generator") => StillThere(t)]_vars

\* C34 amended: when report generation raises during end_session, the
\* request is answered with an internal error and removes nothing: no step
\* of the request after its expiry sweep and before its answer writes
\* anything, and the answer leaves the table and the Orchestrator's store
\* as they are; when no other request has been in flight on the session
\* since end_session found it and no sweep has dropped it, the session is
\* in the table with the same state and messages; and a chat request that
\* names a session in the table is processed in that session.
C34_FailedEndKeepsSession ==
    [][\A t \in ThreadIds :
          LET me == threads[t]
              now == threads'[t]
          IN /\ (me.pc \in {"end_check", "end_access"} /\ Moves(t)) =>
                   /\ active_sessions' = active_sessions
                   /\ sessions' = sessions
             /\ (me.pc = "end_report" /\ Moves(t)
                   /\ last'.failed = "report_generator") =>
                   /\ last'.op = "end_session" /\ last'.status = 500
                   /\ last'.sid = me.sid
                   /\ active_sessions' = active_sessions
                   /\ sessions' = sessions
                   /\ me.alone => StillThere(t)
             /\ (me.pc = "end_report" /\ Moves(t) /\ last'.status = 500) =>
                   last'.failed = "report_generator" \/ last'.error = "KeyError"
             /\ (me.pc = "chat_check" /\ Moves(t) /\ me.message # NoMessage
                   /\ Known(active_sessions, me.client)) =>
                   /\ now.sid = me.client
                   /\ ~now.created
                   /\ now.pc = "chat_touch"]_vars

\* end_session failed on a session of two answered turns that waits for
\* feedback, while a request on another session was in flight, and the
\* table still holds the session
C34_Witness ==
    /\ last.op = "end_session"
    /\ last.status = 500
    /\ last.failed = "report_generator"
    /\ last.sid \in DOMAIN active_sessions
    /\ Len(active_sessions[last.sid].messages) = 4
    /\ active_sessions[last.sid].state = DialogueState.FEEDBACK
    /\ sessions[last.sid].state = "FEEDBACK"
    /\ \E t \in ThreadIds :
          threads[t].pc = "chat_history" /\ threads[t].sid # last.sid

\* a gate that validate_question called raised: the privacy check, or the
\* scope check after a privacy check that reported the question safe
GateRaised ==
    LET privacy == CheckPrivacy(gate.question, gate.privacy_reply)
        scope == ScopeValidateQuestion(gate.question, gate.role, gate.scope_reply)
    IN \/ privacy.raised
       \/ ~privacy.raised /\ privacy.value.is_safe /\ scope.raised

\* C35: validate_question fails closed: when the privacy check or the scope
\* check raises (the call to the service fails, the reply does not parse or
\* lacks a field, the input is invalid), validate_question raises nothing
\* and returns is_valid false with topic None and an error message that is
\* not None.
C35_FailsClosed ==
    (gate.op = "validate_question" /\ GateRaised) =>
        /\ ~gate.raised
        /\ ~gate.validation.is_valid
        /\ gate.validation.topic = NoneStr
        /\ gate.validation.error_message # NoneStr

\* the scope check raised on a reply that is no use, after a privacy check
\* that reported the question safe and did make its call
C35_Witness ==
    /\ gate.op = "validate_question"
    /\ gate.question # <<>>
    /\ gate.privacy_reply.ok /\ gate.privacy_reply.is_safe
    /\ ~gate.scope_reply.ok
    /\ gate.calls = <<"privacy_checker", "scope_validator">>
    /\ GateRaised
    /\ gate.validation = Validation(FALSE, "msg:validation_failed", NoneStr)

\* the front end and the Orchestrator hold the same state for the session;
\* a session the Orchestrator has not been asked about yet is 'initial'
SameState(table, store, sid) ==
    IF sid \in DOMAIN store
    THEN table[sid].state = DialogueState[store[sid].state]
    ELSE table[sid].state = DialogueState.INITIAL

\* every request has been answered
Quiet == \A t \in ThreadIds : threads[t].pc = "idle"

\* C36 as stated: when a chat request has been answered and no request is
\* being served, the state string the front-end table holds for a session
\* is the value of the state the Orchestrator's store holds for the same
\* id.
C36_StatesAgree ==
    (Quiet /\ last.op = "chat") =>
        \A sid \in DOMAIN active_sessions :
            SameState(active_sessions, sessions, sid)

\* the messages the chat requests in flight on a session have appended:
\* one when the user message is in, two when the assistant message is in
RECURSIVE Appended(_, _)
Appended(sid, ts) ==
    IF ts = {} THEN 0
    ELSE LET t == Least(ts)
             mine == IF threads[t].sid # sid THEN 0
                     ELSE IF threads[t].pc = "chat_assistant" THEN 1
                     ELSE IF threads[t].pc = "chat_front" THEN 2
                     ELSE 0
         IN mine + Appended(sid, ts \ {t})

\* C37 as stated: the message_count get_status reports for a session is
\* twice the number of chat requests on the session that have returned a
\* reply.
C37_MessageCount_AsStated ==
    [][\A t \in ThreadIds :
          (GetSessionStatus(t) /\ threads[t].sid \in DOMAIN active_sessions) =>
             last'.body.message_count =
                2 * active_sessions[threads[t].sid].replied]_vars

\* C37 amended: the message_count get_status reports for a session is
\* twice the number of chat requests on the session that have returned a
\* reply, plus the messages appended so far by the chat requests on it
\* that have not returned yet: a chat request appends the user message
\* and then the assistant message when process_input has returned and
\* before it answers, one that fails with an internal error appends
\* nothing, and no step of get_status or get_history writes anything.
C37_MessageCount ==
    [][/\ \A sid \in DOMAIN active_sessions' :
             Len(active_sessions'[sid].messages) =
                2 * active_sessions'[sid].replied + Appended(sid, ThreadIds)'
       /\ \A t \in ThreadIds :
             LET me == threads[t]
                 listed == me.sid \in DOMAIN active_sessions
             IN /\ (GetSessionStatus(t) /\ listed) =>
                      /\ last'.status = 200
                      /\ last'.body.message_count =
                            2 * active_sessions[me.sid].replied
                               + Appended(me.sid, ThreadIds)
                /\ (GetSessionHistory(t) /\ listed) =>
                      /\ last'.status = 200
                      /\ last'.body.messages = active_sessions[me.sid].messages
                /\ (me.op \in {"get_status", "get_history"} /\ Moves(t)
                      /\ me.pc \notin {"sweep", "sweep_del"}) =>
                      /\ active_sessions' = active_sessions
                      /\ sessions' = sessions
                /\ (me.op = "chat" /\ Moves(t) /\ listed) =>
                      active_sessions'[me.sid].messages =
                         IF me.pc = "chat_user"
                         THEN Append(active_sessions[me.sid].messages,
                                     [role |-> "user", content |-> me.message])
                         ELSE IF me.pc = "chat_assistant"
                         THEN Append(active_sessions[me.sid].messages,
                                     [role |-> "assistant",
                                      content |-> me.turn.resp.response])
                         ELSE active_sessions[me.sid].messages
                /\ (me.op = "chat" /\ Moves(t) /\ last'.status = 500
                      /\ threads'[t].pc = "idle") =>
                      me.pc \in {"sweep", "sweep_del", "chat_touch_write",
                                 "chat_access", "chat_stage"}]_vars

\* get_status answered with five messages for a session of two answered
\* turns, while a third turn has appended its user message
C37_Witness ==
    /\ last.op = "get_status"
    /\ last.status = 200
    /\ last.body.message_count = 5
    /\ last.sid \in DOMAIN active_sessions
    /\ active_sessions[last.sid].replied = 2
    /\ \E t \in ThreadIds :
          threads[t].sid = last.sid /\ threads[t].pc = "chat_assistant"

\* the most turns looked ahead for a way to FEEDBACK with a stored solution
MaxTurnsToFeedback == 3

\* the session after a turn served alone in which no stage call fails
AfterGoodTurn(session, out) ==
    LET p == ProcessInput(1 :> session, UserText(1), 1, out)
    IN IF p.raised \/ p.failed # NoneStr THEN session ELSE p.store[1]

\* within k turns in which no stage call fails the session can come to
\* wait for feedback on a stored solution; Onward: by way of the session
\* next that a turn has made of it
RECURSIVE ReachesFeedback(_, _), Onward(_, _, _)
ReachesFeedback(session, k) ==
    \/ AwaitsFeedback(session)
    \/ /\ k > 0
       /\ \E out \in OutcomesIn(Get(session, "state", "INITIAL")) :
             Onward(session, AfterGoodTurn(session, out), k - 1)

Onward(session, next, k) == next # session /\ ReachesFeedback(next, k)

\* the ids a session of these runs can have: session 1 and one session
\* more for every request
LiveIds == 1..(MaxSteps + 1)

\* the Feedback Classifier has returned POSITIVE, NEED_TIME or
\* LOST_CONFIDENCE to the turn on session sid held by thread t, which was
\* dispatched in FEEDBACK and found a solution stored
Conclusive(t, sid) ==
    /\ threads[t].op = "chat"
    /\ threads[t].pc \in {"chat_ended", "chat_state"}
    /\ threads[t].sid = sid
    /\ threads[t].state = "FEEDBACK"
    /\ Truthy(Get(threads[t].snapshot, "solution", ""))
    /\ threads[t].turn.calls = <<"feedback_analyzer">>
    /\ threads[t].turn.out.feedback.ok
    /\ Lower(threads[t].turn.out.feedback.type) \in
          {FeedbackType.POSITIVE, FeedbackType.NEED_TIME,
           FeedbackType.LOST_CONFIDENCE}

\* C38: no state a session can be in but COMPLETED and ENDED is a dead end:
\* turns in which no stage call fails can bring it to FEEDBACK with a
\* stored solution; and when the Feedback Classifier returns POSITIVE,
\* NEED_TIME or LOST_CONFIDENCE on a turn dispatched in FEEDBACK with a
\* stored solution, the session reaches COMPLETED or ENDED.
C38_EventuallyTerminal ==
    /\ [](\A sid \in DOMAIN sessions :
            Get(sessions[sid], "state", "INITIAL") \notin Terminal =>
               ReachesFeedback(sessions[sid], MaxTurnsToFeedback))
    /\ \A sid \in LiveIds :
          (\E t \in ThreadIds : Conclusive(t, sid)) ~>
             (sid \in DOMAIN sessions /\ sessions[sid].state \in Terminal)

\* a session completed by a POSITIVE feedback after a turn in FEEDBACK that
\* found no solution stored and a turn that stored one
C38_Witness ==
    \E t \in ThreadIds :
        /\ threads[t].pc = "chat_history"
        /\ threads[t].state = "FEEDBACK"
        /\ Lower(threads[t].turn.out.feedback.type) = FeedbackType.POSITIVE
        /\ sessions[threads[t].sid].state = "COMPLETED"
        /\ \E i \in 1..Len(sessions[threads[t].sid].history) :
              sessions[threads[t].sid].history[i].response = MsgNoSolution

=============================================================================
